---- MODULE Spec2Model ----
(***************************************************************************)
(* A model of the ccxt market maker: the order lifecycle tracker           *)
(* (src/src/bot/order_manager.py), the retry transport                     *)
(* (src/src/utils/retry_handler.py) and the mid-price resolver             *)
(* (src/src/bot/main.py).                                                  *)
(*                                                                         *)
(* These specifications share the variables:                               *)
(*   Spec       the lifecycle tracker, one action per handler;             *)
(*   SpecRetry  one retry_with_backoff call wrapping create_order, one     *)
(*              action per attempt and per backoff sleep;                  *)
(*   SpecPrice  calculate_mid_price applied to the fields it reads;        *)
(*   SpecBook   one fetch_and_update_orderbook call;                       *)
(*   SpecGrid   the ticks of market_making_loop through the grid gate;     *)
(*   SpecLoop   run(), market_making_loop and _shutdown, one action per    *)
(*              sub-step of a tick (SpecLoopFair: with the event loop's    *)
(*              progress);                                                 *)
(*   SpecCancelAll  one cancel_all_orders call, one action per page, per   *)
(*              batch and per verification pass (SpecCancelAllFair: every  *)
(*              venue call returns or raises);                             *)
(*   SpecPlace  calls of maybe_place_order, one action per step: the       *)
(*              duplicate test, the funds validation, create_order, each   *)
(*              verification attempt, the store write.                     *)
(***************************************************************************)
EXTENDS Integers, Sequences, FiniteSets, TLC

\* ------------------------------------------------------------------ bounds
\* Order ids the venue can assign: 1..MaxIds.
MaxIds == 1
\* The clock (time.time(), whole seconds) runs from 0 to MaxTime.
MaxTime == 4
\* RetryHandler(max_retries=...) is drawn from 0..MaxRetriesBound.
MaxRetriesBound == 5
\* OrderManager(settlement_timeout=...): the constructor's parameter (its
\* default is 60); the tracker only compares clock differences against it.
settlement_timeout == 2

VARIABLES
    now,                     \* the clock read by time.time()
    next_id,                 \* the venue assigns ids 1, 2, ... to new orders
    my_orders,               \* OrderManager.my_orders: id -> OrderData
    recently_closed_orders,  \* OrderManager.recently_closed_orders
    db_status,               \* store, orders table: id -> status ("NONE": no row)
    closed_updates,          \* store: update_order_status(id, 'CLOSED') calls per id
    trades,                  \* store, trades table: id -> the TradeData recorded
    refetch_failed,          \* the ids whose final fetch_order failed in the latest poll
    running,                 \* MarketMakerREST.running
    \* one retry_with_backoff(create_order) call of maybe_place_order
    max_retries,             \* RetryHandler.max_retries
    base_delay,              \* RetryHandler.base_delay
    max_delay,               \* RetryHandler.max_delay
    retry_pc,                \* "call", "sleep", "returned" or "raised"
    attempt,                 \* the loop variable of retry_with_backoff
    calls,                   \* invocations of the wrapped operation so far
    sleeps,                  \* the delays slept so far, in order
    op_error,                \* what the latest invocation raised (NoError: it returned)
    last_exception,          \* retry_with_backoff's last_exception
    raised,                  \* the error retry_with_backoff raised
    venue_created,           \* orders the venue created for this call
    \* the fields calculate_mid_price reads; prices count half units, 0 is None
    orderbook,               \* MarketMakerREST.orderbook: the filtered book
    raw_orderbook,           \* MarketMakerREST._raw_orderbook
    bid_price,               \* MarketMakerREST.bid_price
    ask_price,               \* MarketMakerREST.ask_price
    last_vwap,               \* MarketMakerREST.last_vwap
    ticker_bid,              \* MarketMakerREST.ticker_bid
    ticker_ask,              \* MarketMakerREST.ticker_ask
    last_price,              \* MarketMakerREST.last_price
    last_nearest_bid,        \* MarketMakerREST._last_nearest_bid
    last_nearest_ask,        \* MarketMakerREST._last_nearest_ask
    out_of_range_pricing_fallback,  \* Config.out_of_range_pricing_fallback
    out_of_range_price_mode, \* Config.out_of_range_price_mode
    max_orderbook_deviation, \* Config.max_orderbook_deviation, in percent
    outlier_filter_reference,  \* Config.outlier_filter_reference
    last_inventory_ratio,    \* MarketMakerREST._last_inventory_ratio, in percent
    filter_reference_price,  \* fetch_and_update_orderbook: its reference_price at the end
    synthetic_entries,       \* fetch_and_update_orderbook: the synthetic levels it injected
    price_pc,                \* "start", "fetched" after fetch_and_update_orderbook,
                             \* "done" once calculate_mid_price returned
    mid_price,               \* what calculate_mid_price returned
    \* the grid stability gate
    grid_anchor_price,       \* MarketMakerREST.grid_anchor_price (0: None)
    last_grid_update_time,   \* MarketMakerREST.last_grid_update_time (NoTime: None)
    grid_needs_update,       \* MarketMakerREST.grid_needs_update
    grid_mid_price,          \* calculate_order_grid: the mid_price its grid is built around
    gate_decision,           \* the latest tick: "approved", "declined", "no_price"
    tick_time,               \* the clock at the latest tick
    grid_updates,            \* grid updates approved so far (counted by SpecGrid)
    \* run(), market_making_loop and _shutdown
    loop_pc,                 \* where run() stands: "run", "loop_head", "book", "poll",
                             \* "gate", "grid", "cancel_outside", "place", "sleep",
                             \* "error", "shutdown", "cancel_all", "close", "exited"
    consecutive_errors,      \* market_making_loop's consecutive_errors
    error_delay,             \* the latest error_delay slept (0: none yet)
    book_failed,             \* this tick: fetch_and_update_orderbook's venue call raised
    poll_failed,             \* this tick: fetch_open_orders' venue call raised
    grid_computed,           \* this tick: calculate_order_grid was called
    to_place,                \* grid orders maybe_place_order has still to be called for
    creates,                 \* this tick: create_order calls issued
    cancels,                 \* this tick: cancel_order calls issued
    signalled,               \* signal_handler has run
    cancel_all_outcome,      \* _shutdown: "none", "returned", "timeout"
    exchange_closed,         \* _shutdown: "none", "closed", "failed"
    \* one cancel_all_orders call
    ca_pc,                   \* "fetch", "batches", "verify", "recancel", "done"
    ca_page,                 \* page
    all_open_orders,         \* all_open_orders: the ids, as listed
    batch_from,              \* i, counted from 1
    in_flight,               \* the ids of the cancel tasks gathered last
    remaining_orders,        \* remaining_orders: the ids, as listed
    verification_attempts,   \* verification_attempts
    repolls,                 \* verification passes that polled the open orders
    recancels,               \* verification passes that re-issued cancels
    ca_result,               \* "none"; "no_orders", "cleared", "error_cleared"
    direct_calls,            \* the connector methods called outside
                             \* retry_with_backoff
    \* maybe_place_order, call after call
    pl_pc,                   \* "idle", "funds", "create", "verify", "record",
                             \* "returned", "raised"
    pl_calls,                \* calls made so far
    pl_side,                 \* side
    pl_price,                \* price
    pl_size,                 \* size, a quantity <<n, d>> (n / d)
    min_order_size,          \* config.min_order_size, a quantity
    pl_available,            \* the free balance validate_order_funds read
    pl_oid,                  \* oid
    pl_order_price,          \* order.get('price', price), 0 for None
    verify_attempt,          \* verify_order_placement: attempts made
    verify_seen,             \* what the last attempt observed
    placed_price             \* id -> the price create_order was called with

lifecycle_vars == <<now, next_id, my_orders, recently_closed_orders, db_status,
                    closed_updates, trades, refetch_failed, running>>
retry_vars == <<max_retries, base_delay, max_delay, retry_pc, attempt, calls,
                sleeps, op_error, last_exception, raised, venue_created>>
price_vars == <<orderbook, raw_orderbook, bid_price, ask_price, last_vwap,
                ticker_bid, ticker_ask, last_price, last_nearest_bid,
                last_nearest_ask, out_of_range_pricing_fallback,
                out_of_range_price_mode, max_orderbook_deviation,
                outlier_filter_reference, last_inventory_ratio,
                filter_reference_price, synthetic_entries, price_pc, mid_price>>
grid_vars == <<grid_anchor_price, last_grid_update_time, grid_needs_update,
               grid_mid_price, gate_decision, tick_time, grid_updates>>
loop_vars == <<loop_pc, consecutive_errors, error_delay, book_failed,
               poll_failed, grid_computed, to_place, creates, cancels,
               signalled, cancel_all_outcome, exchange_closed>>
cancelall_vars == <<ca_pc, ca_page, all_open_orders, batch_from, in_flight,
                    remaining_orders, verification_attempts, repolls,
                    recancels, ca_result, direct_calls>>
place_vars == <<pl_pc, pl_calls, pl_side, pl_price, pl_size, min_order_size,
                pl_available, pl_oid, pl_order_price, verify_attempt,
                verify_seen, placed_price>>
\* What the lifecycle handlers leave alone.
other_vars == <<retry_vars, price_vars, grid_vars, loop_vars, cancelall_vars, place_vars>>

\* ------------------------------------------------------------ the venue
Ids == 1 .. MaxIds
\* A filled quantity: nothing (0) or something (1); the tracker only copies
\* the value and tests final_filled > 0.
Fills == {0, 1}
\* The ids the venue has assigned so far.
Issued == 1 .. (next_id - 1)
\* An order's side and price never change at the venue.
VenueSide(id) == IF id = 3 THEN "sell" ELSE "buy"
\* Prices are in units of 0.5: 198 is 99.0.
VenuePrice(id) == IF id = 3 THEN 202 ELSE 198

\* What the final fetch_order "returns" when it raised instead.
FetchFailed == 0 - 1

\* fetch_open_orders responses: the open ids with the filled quantity of each.
Responses == UNION {[S -> Fills] : S \in SUBSET Issued}

\* --------------------------------------------------------- helper functions
Restrict(f, S) == [x \in S |-> f[x]]
EmptyMap == [x \in {} |-> 0]

\* OrderData as built by fetch_open_orders for one order of the response.
OrderData(id, filled, created_at) ==
    [id |-> id, side |-> VenueSide(id), price |-> VenuePrice(id),
     filled |-> filled, created_at |-> created_at]

\* Mutant: the disappearance is stamped with the creation time.
OrderDataWithDisappeared_created(old_order, current_time) ==
    [id |-> old_order.id, side |-> old_order.side, price |-> old_order.price,
     filled |-> old_order.filled, created_at |-> old_order.created_at,
     disappeared_at |-> old_order.created_at]

\* OrderDataWithDisappeared built by _handle_disappeared_orders.
OrderDataWithDisappeared(old_order, current_time) ==
    [id |-> old_order.id, side |-> old_order.side, price |-> old_order.price,
     filled |-> old_order.filled, created_at |-> old_order.created_at,
     disappeared_at |-> current_time]

\* ------------------------------------------------- fetch_open_orders (poll)
\* Mutant: created_at is reset at every poll.
TrackResponse_fresh(orders, R, t) ==
    [id \in (DOMAIN orders) \cup (DOMAIN R) |->
        IF id \in DOMAIN R THEN OrderData(id, R[id], t) ELSE orders[id]]

\* The loop over the response: update or create local tracking.
TrackResponse(orders, R, t) ==
    [id \in (DOMAIN orders) \cup (DOMAIN R) |->
        IF id \in DOMAIN R
        THEN OrderData(id, R[id],
                       IF id \in DOMAIN orders THEN orders[id].created_at ELSE t)
        ELSE orders[id]]

\* Mutant: a reappearing order stays in recently closed.
DropReappeared_kept(closed, R) == closed

\* The loop over the response: remove from recently closed if it reappears.
DropReappeared(closed, R) == Restrict(closed, (DOMAIN closed) \ (DOMAIN R))

\* Mutant: the disappeared orders are not popped from my_orders.
PopDisappeared_kept(orders, current_ids) == orders

\* _handle_disappeared_orders: the tracked orders left after popping old_ids.
PopDisappeared(orders, current_ids) ==
    Restrict(orders, (DOMAIN orders) \cap current_ids)

\* _handle_disappeared_orders: the disappeared set with the old orders added.
AddDisappeared(orders, closed, current_ids, current_time) ==
    LET old_ids == (DOMAIN orders) \ current_ids
    IN  [id \in (DOMAIN closed) \cup old_ids |->
            IF id \in DOMAIN closed THEN closed[id]
            ELSE OrderDataWithDisappeared(orders[id], current_time)]

\* Mutant: the settlement test passes one second early.
IsSettled_early(current_time, order_data) ==
    current_time - order_data.disappeared_at >= settlement_timeout - 1

\* _process_settled_orders: the timeout test of one disappeared order.
IsSettled(current_time, order_data) ==
    current_time - order_data.disappeared_at >= settlement_timeout

\* _process_settled_orders: orders_to_finalize.
OrdersToFinalize(closed, current_time) ==
    {id \in DOMAIN closed : IsSettled(current_time, closed[id])}

\* Mutant: a failed final fetch_order leaves final_filled at its initial 0.
FinalFilled_zero(order_data, fetched) ==
    IF fetched = FetchFailed THEN 0 ELSE fetched

\* _finalize_closed_order: the definitive filled quantity; `fetched` is what
\* the final fetch_order returned, or FetchFailed.
FinalFilled(order_data, fetched) ==
    IF fetched = FetchFailed THEN order_data.filled ELSE fetched

\* TradeData built by _finalize_closed_order (one pair is traded: the pair
\* field is left out).
TradeData(order_data, final_filled) ==
    [orderId |-> order_data.id, side |-> order_data.side,
     price |-> order_data.price, quantity |-> final_filled]

\* update_order_status is an SQL UPDATE: it changes a row only if one exists.
UpdateOrderStatus(db, ids, status) ==
    [id \in Ids |-> IF id \in ids /\ db[id] # "NONE" THEN status ELSE db[id]]

\* What the final fetch_order of each order in fin may yield.
FetchOutcomes(fin) == [fin -> Fills \cup {FetchFailed}]

\* The tracker after a successful poll at clock t with response R, as
\* fetch_open_orders computes it: the two sets, and orders_to_finalize.
PollResult(orders, closed, R, t) ==
    LET current_ids == DOMAIN R
        tracked     == TrackResponse(orders, R, t)
        closed1     == DropReappeared(closed, R)
        closed2     == AddDisappeared(tracked, closed1, current_ids, t)
        fin         == OrdersToFinalize(closed2, t)
    IN  [my_orders |-> PopDisappeared(tracked, current_ids),
         recently_closed_orders |-> Restrict(closed2, (DOMAIN closed2) \ fin),
         finalized |-> Restrict(closed2, fin)]

\* Mutant: a TradeRecord is written for every finalized order.
FinalizeStore_alwaystrade(finalized, fo) ==
    LET fin == DOMAIN finalized
    IN  [db_status |-> UpdateOrderStatus(db_status, fin, "CLOSED"),
         closed_updates |->
              [id \in Ids |-> closed_updates[id] + (IF id \in fin THEN 1 ELSE 0)],
         trades |->
              [id \in Ids |->
                 IF id \in fin
                 THEN Append(trades[id],
                             TradeData(finalized[id], FinalFilled(finalized[id], fo[id])))
                 ELSE trades[id]]]

\* _finalize_closed_order for each order of `finalized`: the store after
\* the CLOSED updates and the TradeRecords; fo gives the outcome of the
\* final fetch_order of each.
FinalizeStore(finalized, fo) ==
    LET fin == DOMAIN finalized
    IN  [db_status |-> UpdateOrderStatus(db_status, fin, "CLOSED"),
         closed_updates |->
              [id \in Ids |-> closed_updates[id] + (IF id \in fin THEN 1 ELSE 0)],
         trades |->
              [id \in Ids |->
                 IF id \in fin /\ FinalFilled(finalized[id], fo[id]) > 0
                 THEN Append(trades[id],
                             TradeData(finalized[id], FinalFilled(finalized[id], fo[id])))
                 ELSE trades[id]]]

\* A successful poll at the current clock with response R; fo gives the
\* outcome of the final fetch_order of each order finalized in this poll.
fetch_open_orders(R, fo) ==
    LET res == PollResult(my_orders, recently_closed_orders, R, now)
        fin == DOMAIN res.finalized
        store == FinalizeStore(res.finalized, fo)
    IN  /\ my_orders' = res.my_orders
        /\ recently_closed_orders' = res.recently_closed_orders
        /\ db_status' = store.db_status
        /\ closed_updates' = store.closed_updates
        /\ trades' = store.trades
        /\ refetch_failed' = {id \in fin : fo[id] = FetchFailed}
        /\ UNCHANGED <<now, next_id, running>>

Poll ==
    /\ UNCHANGED other_vars
    /\ running
    /\ \E R \in Responses :
        \E fo \in FetchOutcomes(DOMAIN PollResult(my_orders,
                      recently_closed_orders, R, now).finalized) :
            fetch_open_orders(R, fo)

\* Mutant: a failed venue call is handled as an empty listing.
FailedPoll_emptied(orders, closed, t) == PollResult(orders, closed, EmptyMap, t)

\* fetch_open_orders when its venue call raised (after the retries): the
\* except clause logs, before any statement touched the tracker.
FailedPoll(orders, closed, t) ==
    [my_orders |-> orders, recently_closed_orders |-> closed,
     finalized |-> EmptyMap]

\* The venue call of a poll fails (after retries): the error is logged and
\* the tracker keeps its state.
PollFail ==
    /\ UNCHANGED other_vars
    /\ running
    /\ LET res == FailedPoll(my_orders, recently_closed_orders, now)
       IN  \E fo \in FetchOutcomes(DOMAIN res.finalized) :
             LET store == FinalizeStore(res.finalized, fo)
             IN  /\ my_orders' = res.my_orders
                 /\ recently_closed_orders' = res.recently_closed_orders
                 /\ db_status' = store.db_status
                 /\ closed_updates' = store.closed_updates
                 /\ trades' = store.trades
    /\ UNCHANGED <<now, next_id, refetch_failed, running>>

\* -------------------------------------------------------- maybe_place_order
\* The duplicate test: a tracked order on the same side within 0.1% of price.
\* |order_price - price| / price < 0.001, on integers.
DuplicateTracked(orders, side, price) ==
    \E id \in DOMAIN orders :
        /\ orders[id].side = side
        /\ orders[id].price # 0
        /\ LET d == IF orders[id].price >= price THEN orders[id].price - price
                    ELSE price - orders[id].price
           IN  d * 1000 < price

PlaceOutcomes == {"no_funds", "create_failed", "rejected", "unverified", "verified"}

\* How many orders timed-out create_order attempts may have left at the venue
\* before the attempt that answered (or before the call gave up).
GhostOrders(outcome) == IF outcome = "no_funds" THEN {0} ELSE {0, 1}

\* One maybe_place_order call for the order the venue would number next_id.
\* The order is tracked and recorded only once verify_order_placement saw it.
maybe_place_order(outcome, ghosts, filled) ==
    LET side  == VenueSide(next_id)
        price == VenuePrice(next_id)
        oid   == next_id + ghosts
        created == IF outcome \in {"no_funds", "create_failed"} THEN 0 ELSE 1
    IN  IF DuplicateTracked(my_orders, side, price)
        THEN UNCHANGED lifecycle_vars
        ELSE /\ next_id + ghosts + created <= MaxIds + 1
             /\ next_id' = next_id + ghosts + created
             /\ IF outcome = "verified"
                THEN /\ my_orders' =
                          [id \in (DOMAIN my_orders) \cup {oid} |->
                              IF id = oid
                              THEN [id |-> oid, side |-> side, price |-> price,
                                    filled |-> filled, created_at |-> now]
                              ELSE my_orders[id]]
                     /\ db_status' = [db_status EXCEPT ![oid] = "OPEN"]
                ELSE UNCHANGED <<my_orders, db_status>>
             /\ UNCHANGED <<now, recently_closed_orders, closed_updates,
                            trades, refetch_failed, running>>

Place ==
    /\ UNCHANGED other_vars
    /\ running
    /\ next_id <= MaxIds
    /\ \E outcome \in PlaceOutcomes :
         \E ghosts \in GhostOrders(outcome) :
           \E filled \in Fills :
             maybe_place_order(outcome, ghosts, filled)

\* ------------------------------------------------------------- cancel_order
\* Mutant: the order is popped whatever the venue answered.
CancelResult_popped(orders, db, order_id, ok) ==
    [my_orders |-> Restrict(orders, (DOMAIN orders) \ {order_id}),
     db_status |-> IF ok THEN UpdateOrderStatus(db, {order_id}, "CANCELLED")
                   ELSE db]

\* cancel_order: the tracked set and the store after the venue cancel
\* returned (ok) or raised (the except clause only logs).
CancelResult(orders, db, order_id, ok) ==
    IF ok
    THEN [my_orders |-> Restrict(orders, (DOMAIN orders) \ {order_id}),
          db_status |-> UpdateOrderStatus(db, {order_id}, "CANCELLED")]
    ELSE [my_orders |-> orders, db_status |-> db]

\* cancel_order(order_id) for a tracked order; ok: the venue call succeeded.
cancel_order(order_id, ok) ==
    /\ my_orders' = CancelResult(my_orders, db_status, order_id, ok).my_orders
    /\ db_status' = CancelResult(my_orders, db_status, order_id, ok).db_status
    /\ UNCHANGED <<now, next_id, recently_closed_orders, closed_updates,
                   trades, refetch_failed, running>>

Cancel ==
    /\ UNCHANGED other_vars
    /\ running
    /\ \E order_id \in DOMAIN my_orders :
         \E ok \in BOOLEAN : cancel_order(order_id, ok)

\* -------------------------------------------- _shutdown: cancel_all_orders
\* cancel_all_orders with the venue listing `listing` (failed: the listing or
\* the verification raised) and `cancelled` the orders of the listing whose
\* cancel succeeded. An empty listing returns before the tracking is cleared.
cancel_all_orders(failed, listing, cancelled) ==
    /\ db_status' = IF failed THEN db_status
                    ELSE UpdateOrderStatus(db_status, cancelled, "CANCELLED")
    /\ IF ~failed /\ listing = {}
       THEN UNCHANGED <<my_orders, recently_closed_orders>>
       ELSE /\ my_orders' = EmptyMap
            /\ recently_closed_orders' = EmptyMap
    /\ UNCHANGED <<now, next_id, closed_updates, trades, refetch_failed>>

Shutdown ==
    /\ UNCHANGED other_vars
    /\ running
    /\ running' = FALSE
    /\ \E failed \in BOOLEAN :
         \E listing \in SUBSET Issued :
           \E cancelled \in SUBSET listing :
             cancel_all_orders(failed, listing, cancelled)

\* ------------------------------------------------------------ environment
\* The clock advances while the process runs.
Tick ==
    /\ UNCHANGED other_vars
    /\ running
    /\ now < MaxTime
    /\ now' = now + 1
    /\ UNCHANGED <<next_id, my_orders, recently_closed_orders, db_status,
                   closed_updates, trades, refetch_failed, running>>

\* An order this bot does not know of appears at the venue.
VenueNewOrder ==
    /\ UNCHANGED other_vars
    /\ next_id <= MaxIds
    /\ next_id' = next_id + 1
    /\ UNCHANGED <<now, my_orders, recently_closed_orders, db_status,
                   closed_updates, trades, refetch_failed, running>>

\* ----------------------------------------- RetryHandler.retry_with_backoff
\* RetryHandler.__init__ defaults, which MarketMakerREST uses.
default_max_retries == 3
default_base_delay == 2
default_max_delay == 30
\* The configurations explored: the defaults, and a small base and cap.
BaseDelays == {1, default_base_delay}
MaxDelays == {5, default_max_delay}

NoError == "none"
\* except (RequestTimeout, NetworkError, ConnectionError, TimeoutError)
TransientErrors == {"RequestTimeout", "NetworkError", "ConnectionError", "TimeoutError"}
\* Errors that reach the second clause, except Exception.
FatalErrors == {"InsufficientFunds", "InvalidOrder"}

\* Mutant: every error is retried.
IsRetryable_all(e) == TRUE

\* Which except clause catches e.
IsRetryable(e) == e \in TransientErrors

RECURSIVE Pow2(_)
Pow2(k) == IF k = 0 THEN 1 ELSE 2 * Pow2(k - 1)
Min(a, b) == IF a <= b THEN a ELSE b

\* Mutant: the delay is not capped.
Delay_uncapped(a) == base_delay * Pow2(a)

\* delay = min(self.base_delay * (2 ** attempt), self.max_delay)
Delay(a) == Min(base_delay * Pow2(a), max_delay)

\* Mutant: the loop gives up one attempt early.
IsLastAttempt_early(a) == a + 1 >= max_retries

\* if attempt == self.max_retries: raise e
IsLastAttempt(a) == a = max_retries

\* for attempt in range(self.max_retries + 1)
LoopContinues(a) == a <= max_retries

\* What one invocation that raised e does to the loop.
AfterError(e) ==
    /\ op_error' = e
    /\ IF IsRetryable(e)
       THEN /\ last_exception' = e
            /\ IF IsLastAttempt(attempt)
               THEN /\ raised' = e
                    /\ retry_pc' = "raised"
                    /\ sleeps' = sleeps
               ELSE /\ raised' = raised
                    /\ retry_pc' = "sleep"
                    /\ sleeps' = Append(sleeps, Delay(attempt))
       ELSE /\ last_exception' = last_exception
            /\ raised' = e
            /\ retry_pc' = "raised"
            /\ sleeps' = sleeps

\* return await operation(*args, **kwargs): create_order answered.
RetryCallReturns ==
    /\ retry_pc = "call"
    /\ calls' = calls + 1
    /\ venue_created' = venue_created + 1
    /\ retry_pc' = "returned"
    /\ op_error' = NoError
    /\ UNCHANGED <<max_retries, base_delay, max_delay, attempt, sleeps,
                   last_exception, raised>>
    /\ UNCHANGED <<lifecycle_vars, price_vars, grid_vars, loop_vars, cancelall_vars, place_vars>>

\* The invocation raised a timeout or network error. The request may have
\* reached the venue before the error: the order may exist there or not.
RetryCallFailsTransient ==
    /\ retry_pc = "call"
    /\ calls' = calls + 1
    /\ \E e \in TransientErrors : AfterError(e)
    /\ \E reached \in {0, 1} : venue_created' = venue_created + reached
    /\ UNCHANGED <<max_retries, base_delay, max_delay, attempt>>
    /\ UNCHANGED <<lifecycle_vars, price_vars, grid_vars, loop_vars, cancelall_vars, place_vars>>

\* The invocation raised another error: the venue refused the order.
RetryCallFailsFatal ==
    /\ retry_pc = "call"
    /\ calls' = calls + 1
    /\ \E e \in FatalErrors : AfterError(e)
    /\ UNCHANGED <<max_retries, base_delay, max_delay, attempt, venue_created>>
    /\ UNCHANGED <<lifecycle_vars, price_vars, grid_vars, loop_vars, cancelall_vars, place_vars>>

\* await asyncio.sleep(delay) is over: the next iteration of the loop, or,
\* the range exhausted, the closing raise last_exception.
RetrySleepDone ==
    /\ retry_pc = "sleep"
    /\ attempt' = attempt + 1
    /\ IF LoopContinues(attempt + 1)
       THEN retry_pc' = "call" /\ raised' = raised
       ELSE retry_pc' = "raised" /\ raised' = last_exception
    /\ UNCHANGED <<max_retries, base_delay, max_delay, calls, sleeps,
                   op_error, last_exception, venue_created>>
    /\ UNCHANGED <<lifecycle_vars, price_vars, grid_vars, loop_vars, cancelall_vars, place_vars>>

\* ------------------------------------------------- the mid-price resolver
\* Prices count half units of the quote currency (200 is 100.0), so that the
\* mid of two even prices is exact.  None and Decimal('0') are both falsy
\* in every test calculate_mid_price makes; both are 0 here.
None == 0

PriceModes == {"nearest_bid", "nearest_ask", "vwap", "auto"}

\* The highest / lowest price of a non-empty side (peekitem(-1), peekitem(0)).
MaxOf(S) == CHOOSE x \in S : \A y \in S : y <= x
MinOf(S) == CHOOSE x \in S : \A y \in S : x <= y

\* fetch_and_update_orderbook: the best bid and ask it stores for
\* calculate_mid_price, None when a side of the filtered book is empty.
BestBid(ob) == IF ob.bids # {} /\ ob.asks # {} THEN MaxOf(ob.bids) ELSE None
BestAsk(ob) == IF ob.bids # {} /\ ob.asks # {} THEN MinOf(ob.asks) ELSE None

\* The prices of our tracked orders of one side.
MyOrderPrices(side) ==
    {my_orders[id].price : id \in {i \in DOMAIN my_orders : my_orders[i].side = side}}

RECURSIVE FirstNotIn(_, _)
\* The first price of a raw level list that is not one of ours, else None.
FirstNotIn(levels, mine) ==
    IF levels = <<>> THEN None
    ELSE IF Head(levels) \notin mine THEN Head(levels)
    ELSE FirstNotIn(Tail(levels), mine)

_find_nearest_bid_in_raw_orderbook == FirstNotIn(raw_orderbook.bids, MyOrderPrices("buy"))
_find_nearest_ask_in_raw_orderbook == FirstNotIn(raw_orderbook.asks, MyOrderPrices("sell"))

Abs(x) == IF x < 0 THEN 0 - x ELSE x

\* min_allowed <= price <= max_allowed, the deviation being in percent.
InBand(price, reference_price) ==
    /\ reference_price * (100 - max_orderbook_deviation) <= price * 100
    /\ price * 100 <= reference_price * (100 + max_orderbook_deviation)

\* The two loops of get_nearest_valid_bid / get_nearest_valid_ask over the
\* side's SortedDict, in ascending order of price: the first level in the
\* band that is not ours, else the first level of least distance.
NearestValid(levels, mine, reference_price) ==
    LET theirs == levels \ mine
        inband == {q \in theirs : InBand(q, reference_price)}
        least  == {q \in theirs : \A r \in theirs :
                      Abs(q - reference_price) <= Abs(r - reference_price)}
    IN  IF inband # {} THEN MinOf(inband)
        ELSE IF theirs # {} THEN MinOf(least)
        ELSE None

get_nearest_valid_bid(reference_price) ==
    IF orderbook.bids = {} THEN None
    ELSE IF max_orderbook_deviation <= 0 THEN MaxOf(orderbook.bids)
    ELSE NearestValid(orderbook.bids, MyOrderPrices("buy"), reference_price)

get_nearest_valid_ask(reference_price) ==
    IF orderbook.asks = {} THEN None
    ELSE IF max_orderbook_deviation <= 0 THEN MinOf(orderbook.asks)
    ELSE NearestValid(orderbook.asks, MyOrderPrices("sell"), reference_price)

\* price_mode == 'nearest_bid': stored nearest bid, raw book, filtered book.
NearestBidChoice ==
    IF last_nearest_bid # None THEN last_nearest_bid
    ELSE IF _find_nearest_bid_in_raw_orderbook # None
         THEN _find_nearest_bid_in_raw_orderbook
    ELSE get_nearest_valid_bid(last_price)

\* price_mode == 'nearest_ask'.
NearestAskChoice ==
    IF last_nearest_ask # None THEN last_nearest_ask
    ELSE IF _find_nearest_ask_in_raw_orderbook # None
         THEN _find_nearest_ask_in_raw_orderbook
    ELSE get_nearest_valid_ask(last_price)

\* price_mode == 'vwap', and the first try of 'auto'.
VwapChoice == IF last_vwap # None /\ last_vwap > 0 THEN last_vwap ELSE None

\* Mutant: the ticker mid is taken whatever the spread.
TickerMid_unguarded ==
    IF ticker_bid > 0 /\ ticker_ask > 0
    THEN (ticker_bid + ticker_ask) \div 2 ELSE None

\* The ticker mid, taken only when ask / bid < 10.
TickerMid ==
    IF /\ ticker_bid # None /\ ticker_ask # None
       /\ ticker_bid > 0 /\ ticker_ask > 0
       /\ ticker_ask < 10 * ticker_bid
    THEN (ticker_bid + ticker_ask) \div 2
    ELSE None

\* The last trade price, when positive.
LastPrice == IF last_price # None /\ last_price > 0 THEN last_price ELSE None

\* The ticker mid, else the last price: the tail of every mode.
TickerThenLast == IF TickerMid # None THEN TickerMid ELSE LastPrice

\* What calculate_mid_price returns.
MidPrice ==
    IF bid_price # None /\ ask_price # None
    THEN (bid_price + ask_price) \div 2
    ELSE IF ~out_of_range_pricing_fallback THEN None
    ELSE IF out_of_range_price_mode = "nearest_bid"
         THEN (IF NearestBidChoice # None THEN NearestBidChoice ELSE TickerThenLast)
    ELSE IF out_of_range_price_mode = "nearest_ask"
         THEN (IF NearestAskChoice # None THEN NearestAskChoice ELSE TickerThenLast)
    ELSE IF out_of_range_price_mode = "vwap"
         THEN (IF VwapChoice # None THEN VwapChoice ELSE TickerThenLast)
    ELSE IF out_of_range_price_mode = "auto"
         THEN (IF VwapChoice # None THEN VwapChoice ELSE TickerThenLast)
    ELSE TickerThenLast

\* One call of calculate_mid_price.
calculate_mid_price ==
    /\ price_pc = "start"
    /\ mid_price' = MidPrice
    /\ price_pc' = "done"
    /\ UNCHANGED <<orderbook, raw_orderbook, bid_price, ask_price, last_vwap,
                   ticker_bid, ticker_ask, last_price, last_nearest_bid,
                   last_nearest_ask, out_of_range_pricing_fallback,
                   out_of_range_price_mode, max_orderbook_deviation,
                   outlier_filter_reference, last_inventory_ratio,
                   filter_reference_price, synthetic_entries>>
    /\ UNCHANGED <<lifecycle_vars, retry_vars, grid_vars, loop_vars, cancelall_vars, place_vars>>

\* ------------------------------------------ fetch_and_update_orderbook
\* In the specifications that run fetch_and_update_orderbook a price p
\* stands for p / 1000 (100000 is 100.0), so that D * 0.999 and D * 1.001
\* are exact for the levels used.

\* ticker_bid and ticker_ask before any ticker was stored: Python's None,
\* which `> 0` cannot compare (TypeError).
NeverSet == 0 - 1

\* Config.target_inventory_ratio and Config.inventory_tolerance, in percent.
target_inventory_ratio == 50
inventory_tolerance == 10

FilterRefs == {"vwap", "nearest_bid", "nearest_ask", "ticker_mid", "last"}

\* No synthetic level.
NoSynthetic == [bids |-> {}, asks |-> {}]

\* The prices of a raw level list.
LevelPrices(levels) == {levels[i] : i \in 1 .. Len(levels)}

\* `self.ticker_bid > 0 and self.ticker_ask > 0` raises on None.
TickerCompareRaises(tb, ta) == tb = NeverSet \/ (tb > 0 /\ ta = NeverSet)

\* The ticker has both quotes.
TickerQuoted(tb, ta) == tb > 0 /\ ta > 0

\* The reference chosen from the configured source (None: no usable value).
PrimaryReference(vwap, tb, ta, last) ==
    CASE outlier_filter_reference = "vwap" -> vwap
      [] outlier_filter_reference \in {"nearest_bid", "nearest_ask"} ->
            IF vwap # None THEN vwap
            ELSE IF TickerQuoted(tb, ta) THEN (tb + ta) \div 2 ELSE None
      [] outlier_filter_reference = "ticker_mid" ->
            IF TickerQuoted(tb, ta) THEN (tb + ta) \div 2 ELSE None
      [] outlier_filter_reference = "last" ->
            IF last # None /\ last > 0 THEN last ELSE None
      [] OTHER -> None

\* The if / elif / elif of the fallback: stored VWAP; else, when the ticker
\* has both quotes, its mid if ask / bid < 10 and nothing otherwise; else
\* the last price.
FallbackReference(vwap, tb, ta, last) ==
    IF vwap # None THEN vwap
    ELSE IF TickerQuoted(tb, ta)
         THEN (IF ta < 10 * tb THEN (tb + ta) \div 2 ELSE None)
    ELSE last

\* reference_price before the filter runs.
BaseReference(vwap, tb, ta, last) ==
    IF PrimaryReference(vwap, tb, ta, last) # None
    THEN PrimaryReference(vwap, tb, ta, last)
    ELSE FallbackReference(vwap, tb, ta, last)

\* Choosing the reference raises: a ticker comparison is reached with
\* ticker_bid still None.
ReferenceRaises(vwap, tb, ta, last) ==
    /\ TickerCompareRaises(tb, ta)
    /\ \/ outlier_filter_reference = "ticker_mid"
       \/ /\ vwap = None
          /\ \/ outlier_filter_reference \in {"nearest_bid", "nearest_ask"}
             \/ PrimaryReference(vwap, NeverSet, NeverSet, last) = None

\* Mutant: our own levels are kept when they are in the band.
FilterLevels_withown(levels, mine, r) ==
    {q \in LevelPrices(levels) : InBand(q, r)}

\* The levels of one raw side kept by the filter around reference r.
FilterLevels(levels, mine, r) ==
    {q \in LevelPrices(levels) \ mine : InBand(q, r)}

\* min(levels excluding ours, key = distance to the reference): the first
\* level of the list among those of least distance, None when there is none.
NearestInList(levels, mine, r) ==
    LET idx == {i \in 1 .. Len(levels) : levels[i] \notin mine}
        best == {i \in idx : \A j \in idx : Abs(levels[i] - r) <= Abs(levels[j] - r)}
    IN  IF idx = {} THEN None ELSE levels[MinOf(best)]

\* The reference after the nearest_bid / nearest_ask update.
FinalReference(ob, r) ==
    CASE outlier_filter_reference = "nearest_bid"
             /\ NearestInList(ob.bids, MyOrderPrices("buy"), r) # None ->
                NearestInList(ob.bids, MyOrderPrices("buy"), r)
      [] outlier_filter_reference = "nearest_ask"
             /\ NearestInList(ob.asks, MyOrderPrices("sell"), r) # None ->
                NearestInList(ob.asks, MyOrderPrices("sell"), r)
      [] OTHER -> r

\* get_directional_reference_price: the best raw bid when there is too much
\* base, the best raw ask when there is too little, None within tolerance.
get_directional_reference_price(ob, ratio) ==
    LET ratio_diff == ratio - target_inventory_ratio
        favor_bids == ratio_diff > inventory_tolerance
        favor_asks == ratio_diff < 0 - inventory_tolerance
    IN  IF favor_bids /\ ob.bids # <<>> THEN MaxOf(LevelPrices(ob.bids))
        ELSE IF favor_asks /\ ob.asks # <<>> THEN MinOf(LevelPrices(ob.asks))
        ELSE None

\* directional_price * Decimal('0.999') and * Decimal('1.001').
SyntheticBidPrice(directional_price) == (directional_price * 999) \div 1000
SyntheticAskPrice(directional_price) == (directional_price * 1001) \div 1000

\* Mutant: both sides receive a synthetic level when one side is empty.
SyntheticFor_bothsides(filtered, ob, ratio) ==
    LET directional_price == get_directional_reference_price(ob, ratio)
        wanted == /\ out_of_range_pricing_fallback
                  /\ (filtered.bids = {} \/ filtered.asks = {})
                  /\ directional_price # None
    IN  [bids |-> IF wanted
                  THEN {[price |-> SyntheticBidPrice(directional_price), size |-> 1]}
                  ELSE {},
         asks |-> IF wanted
                  THEN {[price |-> SyntheticAskPrice(directional_price), size |-> 1]}
                  ELSE {}]

\* The synthetic levels, of size 1, for the sides the filter left empty.
SyntheticFor(filtered, ob, ratio) ==
    LET directional_price == get_directional_reference_price(ob, ratio)
        wanted == /\ out_of_range_pricing_fallback
                  /\ (filtered.bids = {} \/ filtered.asks = {})
                  /\ directional_price # None
    IN  [bids |-> IF wanted /\ filtered.bids = {}
                  THEN {[price |-> SyntheticBidPrice(directional_price), size |-> 1]}
                  ELSE {},
         asks |-> IF wanted /\ filtered.asks = {}
                  THEN {[price |-> SyntheticAskPrice(directional_price), size |-> 1]}
                  ELSE {}]

\* The prices of a set of synthetic levels.
SyntheticPrices(entries) == {e.price : e \in entries}

\* The filter runs: a positive reference and a positive max deviation.
FilterRuns(r) == r # None /\ r > 0 /\ max_orderbook_deviation > 0

\* One call of fetch_and_update_orderbook: the venue answers the order-book
\* request with book and the ticker request with ticker (ok = FALSE: the
\* request failed after its retries); ratio is what
\* calculate_inventory_ratio returned.
fetch_and_update_orderbook(book, ticker, ratio) ==
    LET ob   == [bids |-> book.bids, asks |-> book.asks]
        tb   == IF ticker.ok THEN ticker.bid ELSE ticker_bid
        ta   == IF ticker.ok THEN ticker.ask ELSE ticker_ask
        vwap == IF ticker.ok /\ ticker.vwap > 0 THEN ticker.vwap ELSE last_vwap
        last == IF ticker.ok /\ ticker.last # 0 THEN ticker.last ELSE last_price
        r0   == BaseReference(vwap, tb, ta, last)
        r    == IF FilterRuns(r0) THEN FinalReference(ob, r0) ELSE r0
        filtered ==
            IF FilterRuns(r0)
            THEN [bids |-> FilterLevels(ob.bids, MyOrderPrices("buy"), r),
                  asks |-> FilterLevels(ob.asks, MyOrderPrices("sell"), r)]
            ELSE [bids |-> LevelPrices(ob.bids), asks |-> LevelPrices(ob.asks)]
        synth == IF FilterRuns(r0) THEN SyntheticFor(filtered, ob, ratio)
                 ELSE NoSynthetic
        working == [bids |-> filtered.bids \cup SyntheticPrices(synth.bids),
                    asks |-> filtered.asks \cup SyntheticPrices(synth.asks)]
    IN  /\ last_inventory_ratio' =
              IF out_of_range_pricing_fallback THEN ratio ELSE last_inventory_ratio
        /\ IF ~book.ok
           THEN UNCHANGED <<orderbook, raw_orderbook, bid_price, ask_price,
                            last_vwap, ticker_bid, ticker_ask, last_price,
                            last_nearest_bid, last_nearest_ask,
                            filter_reference_price, synthetic_entries, price_pc>>
           ELSE /\ raw_orderbook' = ob
                /\ ticker_bid' = tb
                /\ ticker_ask' = ta
                /\ last_vwap' = vwap
                /\ last_price' = last
                /\ IF ReferenceRaises(vwap, tb, ta, last)
                   THEN UNCHANGED <<orderbook, bid_price, ask_price,
                                    last_nearest_bid, last_nearest_ask,
                                    filter_reference_price, synthetic_entries,
                                    price_pc>>
                   ELSE /\ orderbook' = working
                        /\ bid_price' = BestBid(working)
                        /\ ask_price' = BestAsk(working)
                        /\ last_nearest_bid' =
                              IF /\ FilterRuns(r0)
                                 /\ outlier_filter_reference = "nearest_bid"
                                 /\ NearestInList(ob.bids, MyOrderPrices("buy"), r0) # None
                              THEN r ELSE last_nearest_bid
                        /\ last_nearest_ask' =
                              IF /\ FilterRuns(r0)
                                 /\ outlier_filter_reference = "nearest_ask"
                                 /\ NearestInList(ob.asks, MyOrderPrices("sell"), r0) # None
                              THEN r ELSE last_nearest_ask
                        /\ filter_reference_price' = r
                        /\ synthetic_entries' = synth
                        /\ price_pc' = "fetched"
        /\ UNCHANGED <<out_of_range_pricing_fallback, out_of_range_price_mode,
                       max_orderbook_deviation, outlier_filter_reference,
                       mid_price>>
        /\ UNCHANGED <<lifecycle_vars, retry_vars, grid_vars, loop_vars, cancelall_vars, place_vars>>

\* What only fetch_and_update_orderbook uses, before its first call.
BookIdle ==
    /\ outlier_filter_reference = "vwap"
    /\ last_inventory_ratio = target_inventory_ratio
    /\ filter_reference_price = None
    /\ synthetic_entries = NoSynthetic

\* The resolver before any book or ticker was fetched (the constructor, and
\* the defaults of Config).
PriceIdle ==
    /\ orderbook = [bids |-> {}, asks |-> {}]
    /\ raw_orderbook = [bids |-> <<>>, asks |-> <<>>]
    /\ bid_price = None
    /\ ask_price = None
    /\ last_vwap = None
    /\ ticker_bid = NeverSet
    /\ ticker_ask = NeverSet
    /\ last_price = None
    /\ last_nearest_bid = None
    /\ last_nearest_ask = None
    /\ out_of_range_pricing_fallback = TRUE
    /\ out_of_range_price_mode = "vwap"
    /\ max_orderbook_deviation = 10
    /\ BookIdle
    /\ price_pc = "start"
    /\ mid_price = None

\* ------------------------------------------------- the grid stability gate
\* In the specification of the gate a price p stands for p / 10 (1004 is
\* 100.4), and grid_spread counts basis points (100 is 0.01).

\* last_grid_update_time before the first grid update: None.
NoTime == 0 - 1

\* Config.polling_interval, in seconds, and Config.grid_spread.
polling_interval == 1
grid_spread == 100

\* dynamic_cooldown = self.config.polling_interval * 3
cooldown_factor == 3

\* time_since_update < dynamic_cooldown
CooldownActive ==
    /\ last_grid_update_time # NoTime
    /\ now - last_grid_update_time < polling_interval * cooldown_factor

\* Mutant: the threshold is the whole grid spread.
PriceMoved_fullspread(current_mid_price) ==
    Abs(current_mid_price - grid_anchor_price) * 10000
        >= grid_spread * grid_anchor_price

\* price_change >= dynamic_threshold, that is
\* |mid - anchor| / anchor >= grid_spread * 0.5.
PriceMoved(current_mid_price) ==
    Abs(current_mid_price - grid_anchor_price) * 10000 * 2
        >= grid_spread * grid_anchor_price

\* Mutant: the cooldown is not checked.
should_update_grid_nocooldown(current_mid_price) ==
    IF grid_needs_update \/ grid_anchor_price = None THEN TRUE
    ELSE PriceMoved(current_mid_price)

should_update_grid(current_mid_price) ==
    IF grid_needs_update \/ grid_anchor_price = None THEN TRUE
    ELSE IF CooldownActive THEN FALSE
    ELSE PriceMoved(current_mid_price)

\* Mutant: the sanity check replaces every mid more than 50% above the
\* reference.
SaneMidPrice_half(mid, last) ==
    IF last # None /\ last > 0 /\ (mid - last) * 2 > last THEN last ELSE mid

\* calculate_order_grid's sanity check: the mid its grid is built around.
SaneMidPrice(mid, last) ==
    IF /\ last # None /\ last > 0
       /\ Abs(mid - last) * 2 > last
       /\ mid > last * 2
    THEN last
    ELSE mid

\* What one tick reads at the venue, as fetch_and_update_orderbook stores it:
\* the best bid and ask of the working book and the ticker's last price
\* (0: none).
Snapshot(bid, ask, last) == [bid |-> bid, ask |-> ask, last |-> last]

Snapshots ==
    {Snapshot(0, 0, 0),
     Snapshot(999, 1001, 1000),
     Snapshot(1003, 1005, 1000),
     Snapshot(1004, 1006, 1000),
     Snapshot(1005, 1007, 1000),
     Snapshot(1599, 1601, 1000),
     Snapshot(2099, 2101, 1000)}

\* One iteration of market_making_loop as far as the gate is concerned: the
\* book and the ticker are refreshed, the mid-price is resolved, the gate
\* decides, and an approved update moves the anchor and builds the grid.
GridTick(snapshot) ==
    /\ running
    /\ bid_price' = snapshot.bid
    /\ ask_price' = snapshot.ask
    /\ last_price' = IF snapshot.last # 0 THEN snapshot.last ELSE last_price
    /\ UNCHANGED <<orderbook, raw_orderbook, last_vwap, ticker_bid, ticker_ask,
                   last_nearest_bid, last_nearest_ask,
                   out_of_range_pricing_fallback, out_of_range_price_mode,
                   max_orderbook_deviation, outlier_filter_reference,
                   last_inventory_ratio, filter_reference_price,
                   synthetic_entries, price_pc, mid_price>>
    /\ tick_time' = now
    /\ LET current_mid_price == MidPrice'
       IN  IF current_mid_price # None /\ should_update_grid(current_mid_price)
           THEN /\ grid_anchor_price' = current_mid_price
                /\ last_grid_update_time' = now
                /\ grid_needs_update' = FALSE
                /\ grid_mid_price' = SaneMidPrice(current_mid_price, last_price')
                /\ gate_decision' = "approved"
                /\ grid_updates' = grid_updates + 1
           ELSE /\ gate_decision' = IF current_mid_price = None THEN "no_price"
                                    ELSE "declined"
                /\ UNCHANGED <<grid_anchor_price, last_grid_update_time,
                               grid_needs_update, grid_mid_price, grid_updates>>
    /\ UNCHANGED <<lifecycle_vars, retry_vars, loop_vars, cancelall_vars, place_vars>>

\* The gate before the first tick.
GridIdle ==
    /\ grid_anchor_price = None
    /\ last_grid_update_time = NoTime
    /\ grid_needs_update = TRUE
    /\ grid_mid_price = None
    /\ gate_decision = "none"
    /\ tick_time = NoTime
    /\ grid_updates = 0

\* ------------------------------------- run, market_making_loop, _shutdown
\* In the specification of the loop the sub-steps of a tick are followed
\* for what they do to the loop: whether the venue call of each failed, the
\* gate, the create_order and cancel_order calls issued. The tracker's sets
\* are not followed here (Spec does that).

\* max_consecutive_errors = 5
max_consecutive_errors == 5

\* asyncio.wait_for(cancel_all_orders(), timeout=30.0)
cancel_all_timeout == 30

\* The loop reads the clock only through now - last_grid_update_time, so the
\* clock counts from an origin that moves: it is followed up to LoopHorizon,
\* and a sleep that would pass the horizon moves the origin forward, and
\* the stored readings with it (a reading older than the origin is kept at
\* 0, at least the cooldown before the clock).
LoopHorizon == polling_interval * cooldown_factor

ClockAfter(delay) == Min(now + delay, LoopHorizon)
Rebase(reading, delay) ==
    IF reading = NoTime THEN NoTime
    ELSE LET at == reading - ((now + delay) - ClockAfter(delay))
         IN  IF at < 0 THEN 0 ELSE at

\* await asyncio.sleep(delay)
Sleep(delay) ==
    /\ now' = ClockAfter(delay)
    /\ last_grid_update_time' = Rebase(last_grid_update_time, delay)
    /\ tick_time' = Rebase(tick_time, delay)

\* Mutant: the delay does not escalate.
ErrorDelay_flat(n) == Min(5, 60)

\* error_delay = min(5 * (2 ** (consecutive_errors - 1)), 60)
ErrorDelay(n) == Min(5 * Pow2(n - 1), 60)

\* Mutant: the gate is consulted without a price.
GateApproves_unguarded(current_mid_price) ==
    should_update_grid(current_mid_price)

\* if current_mid_price and self.should_update_grid(current_mid_price)
GateApproves(current_mid_price) ==
    current_mid_price # None /\ should_update_grid(current_mid_price)

\* Mutant: wait_for without a deadline.
WaitForExpires_never(timeout) == FALSE

\* asyncio.wait_for(aw, timeout): the deadline of a wait that has one
\* expires if aw has not completed by then.
WaitForExpires(timeout) == timeout # NoTime

\* The books the loop may read (the empty book, a quiet one, one that moved).
LoopSnapshots ==
    {Snapshot(0, 0, 0), Snapshot(999, 1001, 1000), Snapshot(1005, 1007, 1000)}

\* calculate_order_grid returns no order (a failure inside, or no balance)
\* or a buy and a sell.
GridSizes == {0, 2}

tracker_vars == <<next_id, my_orders, recently_closed_orders, db_status,
                  closed_updates, trades, refetch_failed>>
gate_vars == <<grid_anchor_price, grid_needs_update, grid_mid_price,
               gate_decision, grid_updates>>
clock_vars == <<now, last_grid_update_time, tick_time>>
tick_vars == <<book_failed, poll_failed, grid_computed, to_place, creates,
               cancels>>
shutdown_vars == <<cancel_all_outcome, exchange_closed>>

\* run() up to the loop: init_currency_ids returns, or raises (logged by
\* run(), whose finally clause shuts down).
RunInit(ok) ==
    /\ loop_pc = "run"
    /\ loop_pc' = IF ok THEN "loop_head" ELSE "shutdown"
    /\ UNCHANGED <<running, consecutive_errors, error_delay, signalled,
                   tick_vars, shutdown_vars, clock_vars, gate_vars,
                   tracker_vars, price_vars, retry_vars, cancelall_vars, place_vars>>

\* while self.running: the next tick starts, or the loop ends.
LoopHead ==
    /\ loop_pc = "loop_head"
    /\ IF running
       THEN /\ loop_pc' = "book"
            /\ book_failed' = FALSE
            /\ poll_failed' = FALSE
            /\ grid_computed' = FALSE
            /\ to_place' = 0
            /\ creates' = 0
            /\ cancels' = 0
            /\ gate_decision' = "none"
       ELSE /\ loop_pc' = "shutdown"
            /\ UNCHANGED <<tick_vars, gate_decision>>
    /\ UNCHANGED <<running, consecutive_errors, error_delay, signalled,
                   shutdown_vars, clock_vars, grid_anchor_price,
                   grid_needs_update, grid_mid_price, grid_updates,
                   tracker_vars, price_vars, retry_vars, cancelall_vars, place_vars>>

\* fetch_and_update_orderbook: the book is stored, or the venue call raised
\* and the except clause logged (bid_price and ask_price stay).
BookStep(ok, snapshot) ==
    /\ loop_pc = "book"
    /\ loop_pc' = "poll"
    /\ book_failed' = ~ok
    /\ IF ok
       THEN /\ bid_price' = snapshot.bid
            /\ ask_price' = snapshot.ask
            /\ last_price' = IF snapshot.last # 0 THEN snapshot.last
                             ELSE last_price
       ELSE UNCHANGED <<bid_price, ask_price, last_price>>
    /\ UNCHANGED <<orderbook, raw_orderbook, last_vwap, ticker_bid, ticker_ask,
                   last_nearest_bid, last_nearest_ask,
                   out_of_range_pricing_fallback, out_of_range_price_mode,
                   max_orderbook_deviation, outlier_filter_reference,
                   last_inventory_ratio, filter_reference_price,
                   synthetic_entries, price_pc, mid_price>>
    /\ UNCHANGED <<running, consecutive_errors, error_delay, signalled,
                   poll_failed, grid_computed, to_place, creates, cancels,
                   shutdown_vars, clock_vars, gate_vars, tracker_vars,
                   retry_vars, cancelall_vars, place_vars>>

\* order_manager.fetch_open_orders: it returns whether its venue call
\* raised or not.
PollStep(ok) ==
    /\ loop_pc = "poll"
    /\ loop_pc' = "gate"
    /\ poll_failed' = ~ok
    /\ UNCHANGED <<running, consecutive_errors, error_delay, signalled,
                   book_failed, grid_computed, to_place, creates, cancels,
                   shutdown_vars, clock_vars, gate_vars, tracker_vars,
                   price_vars, retry_vars, cancelall_vars, place_vars>>

\* Mutant: the update time is stamped whatever the gate said.
GateStep_stamped ==
    /\ loop_pc = "gate"
    /\ tick_time' = now
    /\ last_grid_update_time' = now
    /\ LET current_mid_price == MidPrice
       IN  IF GateApproves(current_mid_price)
           THEN /\ grid_anchor_price' = current_mid_price
                /\ grid_needs_update' = FALSE
                /\ gate_decision' = "approved"
                /\ loop_pc' = "grid"
           ELSE /\ gate_decision' = IF current_mid_price = None THEN "no_price"
                                    ELSE "declined"
                /\ loop_pc' = "sleep"
                /\ UNCHANGED <<grid_anchor_price, grid_needs_update>>
    /\ UNCHANGED <<now, running, consecutive_errors, error_delay, signalled,
                   tick_vars, shutdown_vars, grid_mid_price, grid_updates,
                   tracker_vars, price_vars, retry_vars, cancelall_vars, place_vars>>

\* calculate_mid_price and the gate; an approved update moves the anchor.
GateStep ==
    /\ loop_pc = "gate"
    /\ tick_time' = now
    /\ LET current_mid_price == MidPrice
       IN  IF GateApproves(current_mid_price)
           THEN /\ grid_anchor_price' = current_mid_price
                /\ last_grid_update_time' = now
                /\ grid_needs_update' = FALSE
                /\ gate_decision' = "approved"
                /\ loop_pc' = "grid"
           ELSE /\ gate_decision' = IF current_mid_price = None THEN "no_price"
                                    ELSE "declined"
                /\ loop_pc' = "sleep"
                /\ UNCHANGED <<grid_anchor_price, last_grid_update_time,
                               grid_needs_update>>
    /\ UNCHANGED <<now, running, consecutive_errors, error_delay, signalled,
                   tick_vars, shutdown_vars, grid_mid_price, grid_updates,
                   tracker_vars, price_vars, retry_vars, cancelall_vars, place_vars>>

\* calculate_order_grid: it returns its grid, empty after an error inside.
GridStep(size) ==
    /\ loop_pc = "grid"
    /\ loop_pc' = "cancel_outside"
    /\ grid_computed' = TRUE
    /\ to_place' = size
    /\ grid_mid_price' = IF size = 0 THEN grid_mid_price
                         ELSE SaneMidPrice(MidPrice, last_price)
    /\ UNCHANGED <<running, consecutive_errors, error_delay, signalled,
                   book_failed, poll_failed, creates, cancels, shutdown_vars,
                   clock_vars, grid_anchor_price, grid_needs_update,
                   gate_decision, grid_updates, tracker_vars, price_vars,
                   retry_vars, cancelall_vars, place_vars>>

\* cancel_orders_outside_grid: nothing for an empty grid, else a cancel_order
\* call per tracked order out of range (n of them).
CancelOutsideStep(n) ==
    /\ loop_pc = "cancel_outside"
    /\ loop_pc' = "place"
    /\ cancels' = IF to_place = 0 THEN 0 ELSE n
    /\ UNCHANGED <<running, consecutive_errors, error_delay, signalled,
                   book_failed, poll_failed, grid_computed, to_place, creates,
                   shutdown_vars, clock_vars, gate_vars, tracker_vars,
                   price_vars, retry_vars, cancelall_vars, place_vars>>

\* What one maybe_place_order call comes to: it returns without calling
\* create_order (a duplicate, no funds); it calls create_order and returns
\* (whatever the venue answered); or record_order raises after the order
\* was created and verified.
PlaceResults == {"skipped", "called", "store_raised"}

\* for side, price, size in grid_orders: await self.maybe_place_order(...)
PlaceStep(result) ==
    /\ loop_pc = "place"
    /\ IF to_place = 0
       THEN /\ loop_pc' = "sleep"
            /\ UNCHANGED <<to_place, creates>>
       ELSE /\ to_place' = to_place - 1
            /\ creates' = creates + (IF result = "skipped" THEN 0 ELSE 1)
            /\ loop_pc' = IF result = "store_raised" THEN "error" ELSE "place"
    /\ UNCHANGED <<running, consecutive_errors, error_delay, signalled,
                   book_failed, poll_failed, grid_computed, cancels,
                   shutdown_vars, clock_vars, gate_vars, tracker_vars,
                   price_vars, retry_vars, cancelall_vars, place_vars>>

\* The tick completed: consecutive_errors = 0 and the polling sleep.
TickDone ==
    /\ loop_pc = "sleep"
    /\ loop_pc' = "loop_head"
    /\ consecutive_errors' = 0
    /\ Sleep(polling_interval)
    /\ UNCHANGED <<running, error_delay, signalled, tick_vars, shutdown_vars,
                   gate_vars, tracker_vars, price_vars, retry_vars, cancelall_vars, place_vars>>

\* except Exception in the loop: count, then stop or sleep.
TickError ==
    /\ loop_pc = "error"
    /\ consecutive_errors' = consecutive_errors + 1
    /\ IF consecutive_errors' >= max_consecutive_errors
       THEN /\ running' = FALSE
            /\ loop_pc' = "shutdown"
            /\ UNCHANGED <<error_delay, clock_vars>>
       ELSE /\ error_delay' = ErrorDelay(consecutive_errors')
            /\ Sleep(error_delay')
            /\ loop_pc' = "loop_head"
            /\ UNCHANGED running
    /\ UNCHANGED <<signalled, tick_vars, shutdown_vars, gate_vars,
                   tracker_vars, price_vars, retry_vars, cancelall_vars, place_vars>>

\* Mutant: the signal abandons the tick in progress.
signal_handler_interrupt ==
    /\ running' = FALSE
    /\ loop_pc' = IF loop_pc \in {"cancel_all", "close", "exited"} THEN loop_pc
                  ELSE "shutdown"

\* signal_handler: self.running = False
signal_handler ==
    /\ running' = FALSE
    /\ UNCHANGED loop_pc

\* SIGINT or SIGTERM arrives, wherever run() stands.
Signal ==
    /\ loop_pc # "exited"
    /\ ~signalled
    /\ signalled' = TRUE
    /\ signal_handler
    /\ UNCHANGED <<consecutive_errors, error_delay, tick_vars, shutdown_vars,
                   clock_vars, gate_vars, tracker_vars, price_vars,
                   retry_vars, cancelall_vars, place_vars>>

\* _shutdown: self.running = False, then wait_for(cancel_all_orders(), 30).
ShutdownStart ==
    /\ loop_pc = "shutdown"
    /\ loop_pc' = "cancel_all"
    /\ running' = FALSE
    /\ UNCHANGED <<consecutive_errors, error_delay, signalled, tick_vars,
                   shutdown_vars, clock_vars, gate_vars, tracker_vars,
                   price_vars, retry_vars, cancelall_vars, place_vars>>

\* cancel_all_orders returned before the deadline.
CancelAllReturns ==
    /\ loop_pc = "cancel_all"
    /\ loop_pc' = "close"
    /\ cancel_all_outcome' = "returned"
    /\ UNCHANGED <<running, consecutive_errors, error_delay, signalled,
                   tick_vars, exchange_closed, clock_vars, gate_vars,
                   tracker_vars, price_vars, retry_vars, cancelall_vars, place_vars>>

\* The deadline passed: wait_for cancels cancel_all_orders and raises
\* TimeoutError, which _shutdown logs.
CancelAllTimeout ==
    /\ loop_pc = "cancel_all"
    /\ WaitForExpires(cancel_all_timeout)
    /\ loop_pc' = "close"
    /\ cancel_all_outcome' = "timeout"
    /\ UNCHANGED <<running, consecutive_errors, error_delay, signalled,
                   tick_vars, exchange_closed, clock_vars, gate_vars,
                   tracker_vars, price_vars, retry_vars, cancelall_vars, place_vars>>

\* wait_for(exchange.close(), 10): closed, or it raised or timed out
\* (logged); _shutdown and run() return.
CloseExchange(ok) ==
    /\ loop_pc = "close"
    /\ loop_pc' = "exited"
    /\ exchange_closed' = IF ok THEN "closed" ELSE "failed"
    /\ UNCHANGED <<running, consecutive_errors, error_delay, signalled,
                   tick_vars, cancel_all_outcome, clock_vars, gate_vars,
                   tracker_vars, price_vars, retry_vars, cancelall_vars, place_vars>>

\* run() before it is called.
LoopIdle ==
    /\ loop_pc = "run"
    /\ consecutive_errors = 0
    /\ error_delay = 0
    /\ book_failed = FALSE
    /\ poll_failed = FALSE
    /\ grid_computed = FALSE
    /\ to_place = 0
    /\ creates = 0
    /\ cancels = 0
    /\ signalled = FALSE
    /\ cancel_all_outcome = "none"
    /\ exchange_closed = "none"

\* ----------------------------------------------------- cancel_all_orders
\* The sizes are scaled down: limit = 100 is 2, the pagination stop
\* page > 10 is page > 1, and batch_size = 10 is 2 (limit stays a multiple
\* of batch_size).
page_limit == 2
max_page == 1
batch_size == 2
\* max_verification_attempts = 3
max_verification_attempts == 3

\* The orders that may be open at the venue during a cancel-all.
VenueOpenIds == {1, 2, 3}

RECURSIVE SortedSeq(_)
SortedSeq(S) ==
    IF S = {} THEN <<>> ELSE <<MinOf(S)>> \o SortedSeq(S \ {MinOf(S)})

\* A listing names each order once, in the venue's order; the venue need
\* not honour limit (a listing may be longer than page_limit).
Listings == {SortedSeq(S) : S \in SUBSET VenueOpenIds}

\* What one paginated fetch_open_orders call comes to: a listing, TypeError
\* (the connector does not take the parameters), or another error after
\* the retries.
PageAnswers ==
    {[kind |-> "orders", orders |-> l] : l \in Listings}
        \cup {[kind |-> "type_error", orders |-> <<>>],
              [kind |-> "error", orders |-> <<>>]}

\* One iteration of the pagination loop; `fallback` is the answer to the
\* call without parameters made after a TypeError on page 0. next: "more"
\* (the loop goes on), "stop" (break), "raised" (out of cancel_all_orders'
\* try block).
PageFetch(acc, page, answer, fallback) ==
    LET got == IF answer.kind = "type_error" /\ page = 0 THEN fallback
               ELSE answer
    IN  IF got.kind = "error" \/ (got.kind = "type_error" /\ page = 0)
        THEN [orders |-> acc, page |-> page, next |-> "raised"]
        ELSE IF got.kind = "type_error" \/ got.orders = <<>>
        THEN [orders |-> acc, page |-> page, next |-> "stop"]
        ELSE IF Len(got.orders) < page_limit
        THEN [orders |-> acc \o got.orders, page |-> page, next |-> "stop"]
        ELSE [orders |-> acc \o got.orders, page |-> page + 1,
              next |-> IF page + 1 > max_page THEN "stop" ELSE "more"]

\* batch = all_open_orders[i:i + batch_size]
Batch(orders, from) ==
    SubSeq(orders, from, Min(from + batch_size - 1, Len(orders)))

SeqIds(orders) == {orders[k] : k \in 1 .. Len(orders)}

\* Mutant: the verification never gives up.
VerificationGoesOn_ever(attempts) == TRUE

\* verification_attempts < max_verification_attempts
VerificationGoesOn(attempts) == attempts < max_verification_attempts

ca_rest_vars == <<now, next_id, closed_updates, trades, refetch_failed,
                  running, retry_vars, price_vars, grid_vars, loop_vars,
                  place_vars>>

\* Clear local tracking (at the end, and in the except clause).
ClearTracking ==
    /\ my_orders' = EmptyMap
    /\ recently_closed_orders' = EmptyMap
    /\ ca_pc' = "done"

\* The first pagination loop, one page per step; then the early return
\* when nothing is open.
CaFetchPage(answer, fallback) ==
    /\ ca_pc = "fetch"
    /\ LET res == PageFetch(all_open_orders, ca_page, answer, fallback)
       IN  /\ all_open_orders' = res.orders
           /\ ca_page' = res.page
           /\ IF res.next = "raised"
              THEN /\ ClearTracking
                   /\ ca_result' = "error_cleared"
              ELSE IF res.next = "more"
              THEN UNCHANGED <<ca_pc, ca_result, my_orders,
                               recently_closed_orders>>
              ELSE IF res.orders = <<>>
              THEN /\ ca_pc' = "done"
                   /\ ca_result' = "no_orders"
                   /\ UNCHANGED <<my_orders, recently_closed_orders>>
              ELSE /\ ca_pc' = "batches"
                   /\ UNCHANGED <<ca_result, my_orders, recently_closed_orders>>
    /\ UNCHANGED <<batch_from, in_flight, remaining_orders,
                   verification_attempts, repolls, recancels, direct_calls,
                   db_status, ca_rest_vars>>

\* One batch: its cancel tasks are gathered (they run concurrently);
\* `cancelled` are the orders whose _cancel_single_order succeeded.
CaCancelBatch(cancelled) ==
    /\ ca_pc = "batches"
    /\ in_flight' = Batch(all_open_orders, batch_from)
    /\ cancelled \subseteq SeqIds(in_flight')
    /\ db_status' = UpdateOrderStatus(db_status, cancelled, "CANCELLED")
    /\ batch_from' = batch_from + batch_size
    /\ IF batch_from' > Len(all_open_orders)
       THEN /\ ca_pc' = "verify"
            /\ ca_page' = 0
       ELSE UNCHANGED <<ca_pc, ca_page>>
    /\ UNCHANGED <<all_open_orders, remaining_orders, verification_attempts,
                   repolls, recancels, ca_result, direct_calls, my_orders,
                   recently_closed_orders, ca_rest_vars>>

\* A verification pass, one page per step, and what follows its listing.
CaVerifyPage(answer, fallback) ==
    /\ ca_pc = "verify"
    /\ repolls' = repolls + (IF ca_page = 0 THEN 1 ELSE 0)
    /\ LET acc == IF ca_page = 0 THEN <<>> ELSE remaining_orders
           res == PageFetch(acc, ca_page, answer, fallback)
       IN  /\ remaining_orders' = res.orders
           /\ IF res.next = "raised"
              THEN /\ ClearTracking
                   /\ ca_result' = "error_cleared"
                   /\ UNCHANGED <<ca_page, verification_attempts>>
              ELSE IF res.next = "more"
              THEN /\ ca_page' = res.page
                   /\ UNCHANGED <<ca_pc, ca_result, verification_attempts,
                                  my_orders, recently_closed_orders>>
              ELSE IF res.orders = <<>>
              THEN /\ ClearTracking
                   /\ ca_result' = "cleared"
                   /\ UNCHANGED <<ca_page, verification_attempts>>
              ELSE /\ verification_attempts' = verification_attempts + 1
                   /\ ca_page' = 0
                   /\ IF VerificationGoesOn(verification_attempts')
                      THEN /\ ca_pc' = "recancel"
                           /\ UNCHANGED <<ca_result, my_orders,
                                          recently_closed_orders>>
                      ELSE /\ ClearTracking
                           /\ ca_result' = "cleared"
    /\ UNCHANGED <<all_open_orders, batch_from, in_flight, recancels,
                   direct_calls, db_status, ca_rest_vars>>

\* The cancels re-issued for the orders still open: exchange.cancel_order
\* called on the connector, one order after the other, each error logged;
\* then the next pass.
CaRecancel ==
    /\ ca_pc = "recancel"
    /\ recancels' = recancels + 1
    /\ direct_calls' =
          IF remaining_orders = <<>> THEN direct_calls
          ELSE direct_calls \cup {"cancel_order"}
    /\ ca_pc' = "verify"
    /\ UNCHANGED <<ca_page, all_open_orders, batch_from, in_flight,
                   remaining_orders, verification_attempts, repolls,
                   ca_result, my_orders, recently_closed_orders, db_status,
                   ca_rest_vars>>

\* cancel_all_orders before it is called.
CancelAllIdle ==
    /\ ca_pc = "fetch"
    /\ ca_page = 0
    /\ all_open_orders = <<>>
    /\ batch_from = 1
    /\ in_flight = <<>>
    /\ remaining_orders = <<>>
    /\ verification_attempts = 0
    /\ repolls = 0
    /\ recancels = 0
    /\ ca_result = "none"
    /\ direct_calls = {}

\* ------------------------------------- maybe_place_order, step by step
\* Calls of maybe_place_order followed in one behaviour.
MaxPlaceCalls == 2
\* verify_order_placement(order_id, max_retries=3)
verify_max_retries == 3
\* Before validate_order_funds read a balance.
NoBalance == 0 - 1

\* Quantities are fractions <<n, d>> with d > 0 (Decimal in the code).
QLess(a, b) == a[1] * b[2] < b[1] * a[2]
\* max(a, b)
QMax(a, b) == IF QLess(a, b) THEN b ELSE a

\* The arguments and the balances explored. 1001 is within 0.1% of 1000,
\* 1002 is not.
PlaceSides == {"buy", "sell"}
PlacePrices == {1000, 1001, 1002}
PlaceSizes == {<<1, 1>>, <<2, 1>>}
MinOrderSizes == {<<1, 10>>, <<1, 1>>}
FreeBalances == {0, 1, 2, 999, 1000, 3000}

\* validate_order_funds(side, price, size) with `free` the balance that
\* get_available_balance returned (0 when its venue call failed):
\* (is_valid, adjusted_size). The fee buffer 1.002 is 1002 / 1000.
validate_order_funds(side, price, size, free, min_size) ==
    IF side = "buy"
    THEN IF free * 1000 * size[2] < price * size[1] * 1002
         THEN IF free < price
              THEN [is_valid |-> FALSE, size |-> size]
              ELSE LET max_affordable_size == <<free * 1000, 1002 * price>>
                       adjusted_size == QMax(min_size, max_affordable_size)
                   IN  IF ~QLess(adjusted_size, min_size)
                       THEN [is_valid |-> TRUE, size |-> adjusted_size]
                       ELSE [is_valid |-> FALSE, size |-> size]
         ELSE [is_valid |-> TRUE, size |-> size]
    ELSE IF free * size[2] < size[1]
         THEN IF QLess(<<free, 1>>, min_size)
              THEN [is_valid |-> FALSE, size |-> size]
              ELSE [is_valid |-> TRUE, size |-> QMax(min_size, <<free, 1>>)]
         ELSE [is_valid |-> TRUE, size |-> size]

\* What create_order (through the retries) comes to: it raised; the
\* response is no dict or has no id; its status is rejected, canceled or
\* expired; or an order, whose price field echoes the request or is None.
CreateAnswers == {"raised", "invalid", "rejected", "echo", "no_price"}

\* What one attempt of verify_order_placement observes: the open-orders
\* call raised; the id is listed; it is not listed and fetch_order returns
\* the order with a status other than rejected, canceled, expired; or
\* returns such a status (or nothing); or fetch_order raised.
VerifyObservations ==
    {"poll_error", "listed", "fetched", "fetched_dead", "fetch_error"}

\* Mutant: every attempt confirms the order.
Confirms_any(obs) == TRUE

\* The attempt returns True.
Confirms(obs) == obs \in {"listed", "fetched"}

pl_args == <<pl_side, pl_price, pl_size>>
pl_locals == <<pl_available, pl_oid, pl_order_price, verify_attempt,
               verify_seen>>
pl_rest_vars == <<now, recently_closed_orders, closed_updates, trades,
                  refetch_failed, running, retry_vars, price_vars, grid_vars,
                  loop_vars, cancelall_vars>>

\* The call returns (or raises): its arguments and locals are gone.
PlLeave(pc) ==
    /\ pl_pc' = pc
    /\ pl_side' = "none"
    /\ pl_price' = 0
    /\ pl_size' = <<0, 1>>
    /\ pl_available' = NoBalance
    /\ pl_oid' = 0
    /\ pl_order_price' = 0
    /\ verify_attempt' = 0
    /\ verify_seen' = "none"

\* maybe_place_order(side, price, size) is called: the loop over my_orders
\* that avoids duplicates.
PlCall(side, price, size) ==
    /\ pl_pc \in {"idle", "returned"}
    /\ pl_calls < MaxPlaceCalls
    /\ pl_calls' = pl_calls + 1
    /\ IF DuplicateTracked(my_orders, side, price)
       THEN PlLeave("returned")
       ELSE /\ pl_pc' = "funds"
            /\ pl_side' = side
            /\ pl_price' = price
            /\ pl_size' = size
            /\ UNCHANGED pl_locals
    /\ UNCHANGED <<min_order_size, placed_price, next_id, my_orders, db_status,
                   pl_rest_vars>>

\* is_valid, adjusted_size = await self.validate_order_funds(...)
PlValidateFunds(free) ==
    /\ pl_pc = "funds"
    /\ LET res == validate_order_funds(pl_side, pl_price, pl_size, free,
                                       min_order_size)
       IN  IF res.is_valid
           THEN /\ pl_pc' = "create"
                /\ pl_size' = res.size
                /\ pl_available' = free
                /\ UNCHANGED <<pl_side, pl_price, pl_oid, pl_order_price,
                               verify_attempt, verify_seen>>
           ELSE PlLeave("returned")
    /\ UNCHANGED <<pl_calls, min_order_size, placed_price, next_id, my_orders,
                   db_status, pl_rest_vars>>

\* create_order and the checks of its response.
PlCreate(answer) ==
    /\ pl_pc = "create"
    /\ IF answer \in {"echo", "no_price"}
       THEN /\ pl_pc' = "verify"
            /\ pl_oid' = next_id
            /\ next_id' = next_id + 1
            /\ pl_order_price' = IF answer = "echo" THEN pl_price ELSE 0
            /\ placed_price' =
                  [id \in (DOMAIN placed_price) \cup {next_id} |->
                      IF id = next_id THEN pl_price ELSE placed_price[id]]
            /\ UNCHANGED <<pl_args, pl_available, verify_attempt, verify_seen>>
       ELSE /\ PlLeave("returned")
            /\ UNCHANGED <<next_id, placed_price>>
    /\ UNCHANGED <<pl_calls, min_order_size, my_orders, db_status,
                   pl_rest_vars>>

\* One attempt of verify_order_placement; once an attempt confirms, the
\* order is tracked.
PlVerifyAttempt(obs) ==
    /\ pl_pc = "verify"
    /\ IF Confirms(obs)
       THEN /\ pl_pc' = "record"
            /\ verify_attempt' = verify_attempt + 1
            /\ verify_seen' = obs
            /\ my_orders' =
                  [id \in (DOMAIN my_orders) \cup {pl_oid} |->
                      IF id = pl_oid
                      THEN [id |-> pl_oid, side |-> pl_side,
                            price |-> pl_order_price, filled |-> 0,
                            created_at |-> now]
                      ELSE my_orders[id]]
            /\ UNCHANGED <<pl_args, pl_available, pl_oid, pl_order_price>>
       ELSE IF verify_attempt + 1 < verify_max_retries
       THEN /\ verify_attempt' = verify_attempt + 1
            /\ verify_seen' = obs
            /\ UNCHANGED <<pl_pc, pl_args, pl_available, pl_oid,
                           pl_order_price, my_orders>>
       ELSE /\ PlLeave("returned")
            /\ UNCHANGED my_orders
    /\ UNCHANGED <<pl_calls, min_order_size, placed_price, next_id, db_status,
                   pl_rest_vars>>

\* self.db.record_order(order_record): the row is written, or the write
\* raises out of maybe_place_order.
PlRecord(ok) ==
    /\ pl_pc = "record"
    /\ IF ok
       THEN /\ db_status' = [id \in (DOMAIN db_status) \cup {pl_oid} |->
                                IF id = pl_oid THEN "OPEN" ELSE db_status[id]]
            /\ PlLeave("returned")
       ELSE /\ PlLeave("raised")
            /\ UNCHANGED db_status
    /\ UNCHANGED <<pl_calls, min_order_size, placed_price, next_id, my_orders,
                   pl_rest_vars>>

\* Before maybe_place_order is called.
PlaceIdle ==
    /\ pl_pc = "idle"
    /\ pl_calls = 0
    /\ pl_side = "none"
    /\ pl_price = 0
    /\ pl_size = <<0, 1>>
    /\ min_order_size = <<1, 10>>
    /\ pl_available = NoBalance
    /\ pl_oid = 0
    /\ pl_order_price = 0
    /\ verify_attempt = 0
    /\ verify_seen = "none"
    /\ placed_price = EmptyMap

\* ------------------------------------------------------------------ Spec
\* The retry transport at rest, as the lifecycle specification holds it.
RetryIdle ==
    /\ max_retries = default_max_retries
    /\ base_delay = default_base_delay
    /\ max_delay = default_max_delay
    /\ retry_pc = "call"
    /\ attempt = 0
    /\ calls = 0
    /\ sleeps = <<>>
    /\ op_error = NoError
    /\ last_exception = NoError
    /\ raised = NoError
    /\ venue_created = 0

Init ==
    /\ now = 0
    /\ next_id = 1
    /\ my_orders = EmptyMap
    /\ recently_closed_orders = EmptyMap
    /\ db_status = [id \in Ids |-> "NONE"]
    /\ closed_updates = [id \in Ids |-> 0]
    /\ trades = [id \in Ids |-> <<>>]
    /\ refetch_failed = {}
    /\ running = TRUE
    /\ RetryIdle
    /\ PriceIdle
    /\ GridIdle
    /\ LoopIdle
    /\ CancelAllIdle
    /\ PlaceIdle

Next ==
    \/ Tick
    \/ VenueNewOrder
    \/ Poll
    \/ PollFail
    \/ Place
    \/ Cancel
    \/ Shutdown

vars == <<lifecycle_vars, retry_vars, price_vars, grid_vars, loop_vars,
          cancelall_vars, place_vars>>

Spec == Init /\ [][Next]_vars

\* ------------------------------------------------------------- SpecRetry
\* The tracker at rest, as the retry specification holds it.
LifecycleIdle ==
    /\ now = 0
    /\ next_id = 1
    /\ my_orders = EmptyMap
    /\ recently_closed_orders = EmptyMap
    /\ db_status = [id \in Ids |-> "NONE"]
    /\ closed_updates = [id \in Ids |-> 0]
    /\ trades = [id \in Ids |-> <<>>]
    /\ refetch_failed = {}
    /\ running = TRUE

InitRetry ==
    /\ max_retries \in 0 .. MaxRetriesBound
    /\ base_delay \in BaseDelays
    /\ max_delay \in MaxDelays
    /\ retry_pc = "call"
    /\ attempt = 0
    /\ calls = 0
    /\ sleeps = <<>>
    /\ op_error = NoError
    /\ last_exception = NoError
    /\ raised = NoError
    /\ venue_created = 0
    /\ LifecycleIdle
    /\ PriceIdle
    /\ GridIdle
    /\ LoopIdle
    /\ CancelAllIdle
    /\ PlaceIdle

NextRetry ==
    \/ RetryCallReturns
    \/ RetryCallFailsTransient
    \/ RetryCallFailsFatal
    \/ RetrySleepDone

SpecRetry == InitRetry /\ [][NextRetry]_vars

\* ------------------------------------------------------------- SpecPrice
\* Filtered books: both sides (bid 100, ask 102), one side, none.
FilteredBooks ==
    [bids : {{}, {180, 200}}, asks : {{}, {204, 220}}]
\* Raw books as the venue lists them, best level first.
RawBooks ==
    [bids : {<<>>, <<198>>, <<198, 190>>}, asks : {<<>>, <<206>>}]
\* Tickers (bid, ask): none, 99/101, ask = 10 * bid, ask just under 10 * bid.
Tickers == {<<0, 0>>, <<198, 202>>, <<20, 200>>, <<20, 198>>}
\* The tracker holds no order, or our bid 1 at 99.
TrackedForPrice == {EmptyMap, [id \in {1} |-> OrderData(1, 0, 0)]}

InitPrice ==
    /\ now = 0
    /\ next_id = 2
    /\ my_orders \in TrackedForPrice
    /\ recently_closed_orders = EmptyMap
    /\ db_status = [id \in Ids |-> "NONE"]
    /\ closed_updates = [id \in Ids |-> 0]
    /\ trades = [id \in Ids |-> <<>>]
    /\ refetch_failed = {}
    /\ running = TRUE
    /\ RetryIdle
    /\ orderbook \in FilteredBooks
    /\ raw_orderbook \in RawBooks
    /\ bid_price = BestBid(orderbook)
    /\ ask_price = BestAsk(orderbook)
    /\ last_vwap \in {None, 210}
    /\ \E t \in Tickers : ticker_bid = t[1] /\ ticker_ask = t[2]
    /\ last_price \in {None, 196}
    /\ last_nearest_bid \in {None, 194}
    /\ last_nearest_ask \in {None, 208}
    /\ out_of_range_pricing_fallback \in BOOLEAN
    /\ out_of_range_price_mode \in PriceModes
    /\ max_orderbook_deviation \in {0, 10}
    /\ BookIdle
    /\ price_pc = "start"
    /\ mid_price = None
    /\ GridIdle
    /\ LoopIdle
    /\ CancelAllIdle
    /\ PlaceIdle

NextPrice == calculate_mid_price

SpecPrice == InitPrice /\ [][NextPrice]_vars

\* -------------------------------------------------------------- SpecBook
\* One of our orders, resting at price.
OwnOrder(id, side, price) ==
    [OrderData(id, 0, 0) EXCEPT !.side = side, !.price = price]

\* The tracker holds no order, or our bid at 99 and our ask at 120.
TrackedForBook ==
    {EmptyMap,
     [id \in {1, 2} |-> IF id = 1 THEN OwnOrder(1, "buy", 99000)
                        ELSE OwnOrder(2, "sell", 120000)]}

\* A raw order book as the venue returns it, best level first.
RawBook(bids, asks) == [ok |-> TRUE, bids |-> bids, asks |-> asks]

\* The order-book request fails, or returns one of these books (100 is the
\* reference of most tickers: the band is 90 .. 110).
BookResponses ==
    {[ok |-> FALSE, bids |-> <<>>, asks |-> <<>>],
     RawBook(<<>>, <<>>),
     RawBook(<<100000, 99000, 90000, 89000>>, <<101000, 110000, 111000>>),
     RawBook(<<80000>>, <<120000>>),
     RawBook(<<99000>>, <<120000, 130000>>),
     RawBook(<<80000>>, <<101000>>)}

\* A ticker as the venue returns it (0: the field is absent).
Ticker(bid, ask, vwap, last) ==
    [ok |-> TRUE, bid |-> bid, ask |-> ask, vwap |-> vwap, last |-> last]

\* The ticker request fails, or returns one of these.
TickerResponses ==
    {[ok |-> FALSE, bid |-> 0, ask |-> 0, vwap |-> 0, last |-> 0],
     Ticker(99000, 101000, 100000, 98000),
     Ticker(99000, 101000, 0, 98000),
     Ticker(10000, 100000, 0, 98000),
     Ticker(0, 0, 0, 98000),
     Ticker(0, 0, 0, 0)}

\* What earlier calls stored of the ticker: nothing (no ticker request has
\* succeeded yet), or what one of two of the tickers above leaves.
StoredTickers ==
    {[bid |-> NeverSet, ask |-> NeverSet, vwap |-> None, last |-> None],
     [bid |-> 99000, ask |-> 101000, vwap |-> 100000, last |-> 98000],
     [bid |-> 10000, ask |-> 100000, vwap |-> None, last |-> 98000]}

\* Inventory ratios, in percent: too little base, the upper edge of the
\* tolerance, too much base.
InventoryRatios == {30, 60, 70}

InitBook ==
    /\ now = 0
    /\ next_id = 3
    /\ my_orders \in TrackedForBook
    /\ recently_closed_orders = EmptyMap
    /\ db_status = [id \in Ids |-> "NONE"]
    /\ closed_updates = [id \in Ids |-> 0]
    /\ trades = [id \in Ids |-> <<>>]
    /\ refetch_failed = {}
    /\ running = TRUE
    /\ RetryIdle
    /\ orderbook = [bids |-> {}, asks |-> {}]
    /\ raw_orderbook = [bids |-> <<>>, asks |-> <<>>]
    /\ bid_price = None
    /\ ask_price = None
    /\ \E stored \in StoredTickers :
          /\ last_vwap = stored.vwap
          /\ ticker_bid = stored.bid
          /\ ticker_ask = stored.ask
          /\ last_price = stored.last
    /\ last_nearest_bid = None
    /\ last_nearest_ask = None
    /\ out_of_range_pricing_fallback \in BOOLEAN
    /\ out_of_range_price_mode = "vwap"
    /\ max_orderbook_deviation \in {0, 10}
    /\ outlier_filter_reference \in FilterRefs
    /\ last_inventory_ratio = target_inventory_ratio
    /\ filter_reference_price = None
    /\ synthetic_entries = NoSynthetic
    /\ price_pc = "start"
    /\ mid_price = None
    /\ GridIdle
    /\ LoopIdle
    /\ CancelAllIdle
    /\ PlaceIdle

NextBook ==
    /\ price_pc = "start"
    /\ \E book \in BookResponses, ticker \in TickerResponses, ratio \in InventoryRatios :
          fetch_and_update_orderbook(book, ticker, ratio)

SpecBook == InitBook /\ [][NextBook]_vars

\* -------------------------------------------------------------- SpecGrid
InitGrid ==
    /\ LifecycleIdle
    /\ RetryIdle
    /\ PriceIdle
    /\ GridIdle
    /\ LoopIdle
    /\ CancelAllIdle
    /\ PlaceIdle

NextGrid ==
    \/ Tick
    \/ \E snapshot \in Snapshots : GridTick(snapshot)

SpecGrid == InitGrid /\ [][NextGrid]_vars

\* -------------------------------------------------------------- SpecLoop
InitLoop ==
    /\ LifecycleIdle
    /\ RetryIdle
    /\ PriceIdle
    /\ GridIdle
    /\ LoopIdle
    /\ CancelAllIdle
    /\ PlaceIdle

\* The steps run() takes by itself.
LoopSteps ==
    \/ \E ok \in BOOLEAN : RunInit(ok)
    \/ LoopHead
    \/ \E ok \in BOOLEAN, snapshot \in LoopSnapshots : BookStep(ok, snapshot)
    \/ \E ok \in BOOLEAN : PollStep(ok)
    \/ GateStep
    \/ \E size \in GridSizes : GridStep(size)
    \/ \E n \in {0, 1} : CancelOutsideStep(n)
    \/ \E result \in PlaceResults : PlaceStep(result)
    \/ TickDone
    \/ TickError
    \/ ShutdownStart
    \/ CancelAllTimeout
    \/ \E ok \in BOOLEAN : CloseExchange(ok)

NextLoop ==
    \/ LoopSteps
    \/ CancelAllReturns
    \/ Signal

SpecLoop == InitLoop /\ [][NextLoop]_vars

\* run() keeps taking its steps; nothing makes the venue answer a
\* cancel-all before the deadline, and nothing makes a signal arrive.
SpecLoopFair == SpecLoop /\ WF_vars(LoopSteps)

\* --------------------------------------------------------- SpecCancelAll
\* cancel_all_orders called with nothing tracked, or with order 1 tracked
\* and in the store.
InitCancelAll ==
    /\ now = 0
    /\ next_id = 2
    /\ my_orders \in TrackedForPrice
    /\ recently_closed_orders = EmptyMap
    /\ db_status = [id \in Ids |-> IF id \in DOMAIN my_orders THEN "OPEN"
                                   ELSE "NONE"]
    /\ closed_updates = [id \in Ids |-> 0]
    /\ trades = [id \in Ids |-> <<>>]
    /\ refetch_failed = {}
    /\ running = FALSE
    /\ RetryIdle
    /\ PriceIdle
    /\ GridIdle
    /\ LoopIdle
    /\ CancelAllIdle
    /\ PlaceIdle

NextCancelAll ==
    \/ \E answer \in PageAnswers, fallback \in PageAnswers :
          CaFetchPage(answer, fallback)
    \/ \E cancelled \in SUBSET VenueOpenIds : CaCancelBatch(cancelled)
    \/ \E answer \in PageAnswers, fallback \in PageAnswers :
          CaVerifyPage(answer, fallback)
    \/ CaRecancel

SpecCancelAll == InitCancelAll /\ [][NextCancelAll]_vars

\* Every venue call of cancel_all_orders returns or raises.
SpecCancelAllFair == SpecCancelAll /\ WF_vars(NextCancelAll)

\* ------------------------------------------------------------- SpecPlace
\* Calls of maybe_place_order with nothing tracked at first, under either
\* minimum order size.
InitPlace ==
    /\ LifecycleIdle
    /\ RetryIdle
    /\ PriceIdle
    /\ GridIdle
    /\ LoopIdle
    /\ CancelAllIdle
    /\ pl_pc = "idle"
    /\ pl_calls = 0
    /\ pl_side = "none"
    /\ pl_price = 0
    /\ pl_size = <<0, 1>>
    /\ min_order_size \in MinOrderSizes
    /\ pl_available = NoBalance
    /\ pl_oid = 0
    /\ pl_order_price = 0
    /\ verify_attempt = 0
    /\ verify_seen = "none"
    /\ placed_price = EmptyMap

NextPlace ==
    \/ \E side \in PlaceSides, price \in PlacePrices, size \in PlaceSizes :
          PlCall(side, price, size)
    \/ \E free \in FreeBalances : PlValidateFunds(free)
    \/ \E answer \in CreateAnswers : PlCreate(answer)
    \/ \E obs \in VerifyObservations : PlVerifyAttempt(obs)
    \/ \E ok \in BOOLEAN : PlRecord(ok)

SpecPlace == InitPlace /\ [][NextPlace]_vars

\* ================================================================ claims
\* ---------------------------------------------------------------- C1
\* C1 (as claimed): for every order id, whatever the polls report, at most
\* one TradeRecord is written, at most one CLOSED update with a nonzero fill
\* is recorded (each such update comes with its TradeRecord), and the order
\* is finalized at most once.
C1_ExactlyOnceFinalization ==
    \A id \in Ids : Len(trades[id]) <= 1 /\ closed_updates[id] <= 1

\* ---------------------------------------------------------------- C2
\* C2: no order id is at once in my_orders and in recently_closed_orders.
C2_TrackedDisappearedDisjoint ==
    (DOMAIN my_orders) \cap (DOMAIN recently_closed_orders) = {}

\* An order the bot placed and recorded has since disappeared from a poll.
C2_Witness ==
    \E id \in DOMAIN recently_closed_orders :
        db_status[id] = "OPEN" /\ id \notin DOMAIN my_orders

\* ---------------------------------------------------------------- C3
\* The seconds since id disappeared.
Elapsed(id) == now - recently_closed_orders[id].disappeared_at

\* Every successful poll that does not list a disappeared order finalizes it
\* if and only if the settlement timeout has elapsed, and finalizes nothing
\* else.
C3_PollFinalizesIffSettled ==
    \A R \in Responses :
        LET res == PollResult(my_orders, recently_closed_orders, R, now)
        IN  /\ \A id \in (DOMAIN recently_closed_orders) \ (DOMAIN R) :
                 IF Elapsed(id) >= settlement_timeout
                 THEN /\ id \in DOMAIN res.finalized
                      /\ id \notin DOMAIN res.recently_closed_orders
                 ELSE /\ id \notin DOMAIN res.finalized
                      /\ id \in DOMAIN res.recently_closed_orders
            /\ (DOMAIN res.finalized) \subseteq
                   (DOMAIN recently_closed_orders) \ (DOMAIN R)

\* A CLOSED update or a TradeRecord is written for an order only in a step
\* that takes it out of the disappeared set with the timeout elapsed; and
\* while the bot runs, an order leaves the disappeared set without being
\* tracked again only so.
C3_StepFinalizesOnlySettled ==
    \A id \in Ids :
        /\ (closed_updates'[id] # closed_updates[id] \/ trades'[id] # trades[id])
              => /\ id \in DOMAIN recently_closed_orders
                 /\ Elapsed(id) >= settlement_timeout
                 /\ id \notin DOMAIN recently_closed_orders'
                 /\ closed_updates'[id] = closed_updates[id] + 1
        /\ (/\ running'
            /\ id \in DOMAIN recently_closed_orders
            /\ id \notin DOMAIN recently_closed_orders'
            /\ id \notin DOMAIN my_orders')
              => /\ Elapsed(id) >= settlement_timeout
                 /\ closed_updates'[id] = closed_updates[id] + 1

\* C3: an order that disappeared at d is finalized by a poll at t only if
\* t - d >= settlement_timeout; before that (at d + timeout - 1) it stays in
\* the disappeared set with no CLOSED update and no TradeRecord, and from
\* d + timeout on (at d + timeout + 1) a successful poll that still does not
\* list it finalizes it.
C3_SettlementTiming ==
    []C3_PollFinalizesIffSettled /\ [][C3_StepFinalizesOnlySettled]_vars

\* An order was finalized, with a TradeRecord, exactly when its timeout
\* elapsed.
C3_Witness ==
    \E id \in Ids :
        /\ closed_updates[id] = 1
        /\ Len(trades[id]) = 1
        /\ now = settlement_timeout
        /\ id \notin DOMAIN recently_closed_orders

\* ---------------------------------------------------------------- C4
\* Every order that leaves the disappeared set in this step is tracked again
\* or gets its CLOSED update.
LeavesReopenedOrFinalized ==
    \A id \in DOMAIN recently_closed_orders :
        id \notin DOMAIN recently_closed_orders'
            => \/ id \in DOMAIN my_orders'
               \/ closed_updates'[id] = closed_updates[id] + 1

\* C4 (as claimed, its safety half): an order leaves the disappeared set only
\* by being tracked again or by being finalized with a CLOSED update.
C4_LeavesOnlyReopenedOrFinalized == [][LeavesReopenedOrFinalized]_vars

\* ---------------------------------------------------------------- C5
\* Applying the poll with R at clock t to the result of a poll with R at the
\* current clock changes neither set and finalizes nothing.
SecondPollChangesNothing(R, t) ==
    LET first  == PollResult(my_orders, recently_closed_orders, R, now)
        second == PollResult(first.my_orders, first.recently_closed_orders, R, t)
    IN  /\ second.my_orders = first.my_orders
        /\ second.recently_closed_orders = first.recently_closed_orders
        /\ second.finalized = EmptyMap

\* C5 (as claimed): a second poll with the same response right after the
\* first (the clock reads the same or one second more) leaves both sets as
\* the first left them and writes no store record.
C5_IdempotentRightAfter ==
    \A R \in Responses : \A t \in {now, now + 1} : SecondPollChangesNothing(R, t)

\* C5 (amended): a second poll with the same response leaves both sets as
\* the first left them and writes no store record, provided no order of the
\* disappeared set has reached its settlement timeout when it runs.
C5_IdempotentUntilSettlement ==
    \A R \in Responses : \A t \in now .. MaxTime :
        LET first == PollResult(my_orders, recently_closed_orders, R, now)
        IN  (\A id \in DOMAIN first.recently_closed_orders :
                t - first.recently_closed_orders[id].disappeared_at
                    < settlement_timeout)
            => SecondPollChangesNothing(R, t)

\* A disappeared order has been through later polls and is still waiting.
C5_Witness ==
    \E id \in DOMAIN recently_closed_orders :
        /\ now > recently_closed_orders[id].disappeared_at
        /\ Elapsed(id) < settlement_timeout
        /\ recently_closed_orders[id].created_at
              < recently_closed_orders[id].disappeared_at

\* ---------------------------------------------------------------- C6
\* C6 (as claimed): one placement attempt creates at most one order at the
\* venue, retries included.
C6_NoDoubleSubmission == venue_created <= 1

\* ---------------------------------------------------------------- C7
\* Once a fatal error was raised, no invocation and no sleep follow.
NothingAfterFatal ==
    (op_error \in FatalErrors)
        => (calls' = calls /\ sleeps' = sleeps /\ raised' = raised)

\* C7: when the operation raises a non-transient error, retry_with_backoff
\* raises that same error at once: no further invocation and no sleep follow,
\* however many transient failures came before.
C7_FatalRaisedImmediately ==
    /\ [](op_error \in FatalErrors
            => /\ retry_pc = "raised"
               /\ raised = op_error
               /\ Len(sleeps) = calls - 1)
    /\ [][NothingAfterFatal]_vars

\* A fatal error after two transient failures.
C7_Witness ==
    /\ op_error \in FatalErrors
    /\ calls = 3
    /\ raised = op_error
    /\ last_exception \in TransientErrors

\* ---------------------------------------------------------------- C8
\* Once the operation returned, it is not invoked again.
NothingAfterSuccess ==
    (retry_pc = "returned") => (calls' = calls /\ retry_pc' = retry_pc)

\* C8: the operation is invoked at most max_retries + 1 times; the call
\* stops at the first success; if every attempt fails transiently it raises
\* the transient error of the last attempt after exactly max_retries + 1
\* invocations.
C8_BoundedAttempts ==
    /\ [](/\ calls <= max_retries + 1
          /\ retry_pc = "returned" => (op_error = NoError /\ raised = NoError)
          /\ (retry_pc = "raised" /\ raised \in TransientErrors)
                => (calls = max_retries + 1 /\ raised = op_error)
          /\ (retry_pc = "call" /\ calls > 0) => op_error \in TransientErrors)
    /\ [][NothingAfterSuccess]_vars

\* With the default of 3 retries, the fourth transient failure is raised.
C8_Witness ==
    /\ max_retries = default_max_retries
    /\ retry_pc = "raised"
    /\ raised \in TransientErrors
    /\ calls = default_max_retries + 1

\* ---------------------------------------------------------------- C9
\* min(base_delay * 2^k, max_delay), written out.
ExpectedDelay(k) ==
    IF base_delay * Pow2(k) < max_delay THEN base_delay * Pow2(k) ELSE max_delay

\* C9: the sleep after the k-th failed attempt is min(base_delay * 2^k,
\* max_delay) (2, 4, 8 with the defaults); there is one sleep per failed
\* attempt that is followed by another attempt, and none after the final
\* failure, after a success or after a fatal error.
C9_BackoffDelays ==
    /\ \A i \in 1 .. Len(sleeps) : sleeps[i] = ExpectedDelay(i - 1)
    /\ Len(sleeps) = IF retry_pc \in {"returned", "raised"} THEN calls - 1
                     ELSE calls
    /\ (base_delay = 2 /\ max_delay = 30 /\ Len(sleeps) >= 3)
          => (sleeps[1] = 2 /\ sleeps[2] = 4 /\ sleeps[3] = 8)

\* With the defaults for the delays, the fifth sleep is capped at 30.
C9_Witness ==
    /\ base_delay = default_base_delay
    /\ max_delay = default_max_delay
    /\ Len(sleeps) = 5
    /\ sleeps[5] = default_max_delay
    /\ sleeps[3] = 8

\* --------------------------------------------------------------- C10
\* The claimed precedence below the filtered book: the choice of the mode,
\* then the ticker mid when ask < 10 * bid, then the last trade price, and
\* Unavailable when none is positive.
FallbackChain ==
    LET choice == CASE out_of_range_price_mode = "nearest_bid" -> NearestBidChoice
                    [] out_of_range_price_mode = "nearest_ask" -> NearestAskChoice
                    [] OTHER -> last_vwap
        ticker == IF ticker_bid > 0 /\ ticker_ask > 0 /\ ticker_ask < 10 * ticker_bid
                  THEN (ticker_bid + ticker_ask) \div 2 ELSE 0
    IN  IF choice > 0 THEN choice
        ELSE IF ticker > 0 THEN ticker
        ELSE IF last_price > 0 THEN last_price
        ELSE 0

\* The filtered book has both sides.
BookHasBothSides == orderbook.bids # {} /\ orderbook.asks # {}

\* The book mid comes first, whatever VWAP, ticker and last price are:
\* book 100/102 gives 101.
BookMidFirst ==
    (price_pc = "done" /\ BookHasBothSides)
        => /\ mid_price = (MaxOf(orderbook.bids) + MinOf(orderbook.asks)) \div 2
           /\ mid_price = 202

\* The cases of the list: VWAP 105 in mode vwap gives 105; mode auto with no
\* VWAP and ticker 99/101 gives 100; no VWAP, no ticker, no nearest level and
\* last 98 gives 98; nothing at all gives Unavailable.
ListedCases ==
    /\ (out_of_range_price_mode = "vwap" /\ last_vwap = 210) => mid_price = 210
    /\ (/\ out_of_range_price_mode = "auto" /\ last_vwap = 0
        /\ ticker_bid = 198 /\ ticker_ask = 202) => mid_price = 200
    /\ (/\ out_of_range_price_mode \in {"vwap", "auto"} /\ last_vwap = 0
        /\ ticker_bid = 0 /\ last_price = 196) => mid_price = 196
    /\ (/\ out_of_range_price_mode \in {"vwap", "auto"} /\ last_vwap = 0
        /\ ticker_bid = 0 /\ last_price = 0) => mid_price = 0

Filtered ==
    /\ price_pc = "fetched"
    /\ filter_reference_price > 0
    /\ max_orderbook_deviation > 0

\* The prices of our tracked buy orders, and of our tracked sell orders.
OwnBids == {my_orders[id].price : id \in {i \in DOMAIN my_orders : my_orders[i].side = "buy"}}
OwnAsks == {my_orders[id].price : id \in {i \in DOMAIN my_orders : my_orders[i].side = "sell"}}

\* The raw levels p of a side with r(1 - d) <= p <= r(1 + d) that are not at
\* the price of one of our orders of that side, d being in percent.
KeptLevels(levels, own) ==
    {levels[i] : i \in {j \in 1 .. Len(levels) :
        /\ filter_reference_price * (100 - max_orderbook_deviation) <= levels[j] * 100
        /\ levels[j] * 100 <= filter_reference_price * (100 + max_orderbook_deviation)
        /\ levels[j] \notin own}}

\* C11: when a positive reference r and a positive max deviation d are
\* available, the working book after fetch_and_update_orderbook holds, apart
\* from synthetic entries, exactly the raw levels within [r(1-d), r(1+d)]
\* (r the reference finally used) that are not at the price of one of our own
\* orders of that side; with r = 100 and d = 0.1 only levels in [90, 110]
\* are retained.
C11_OutlierFiltering ==
    Filtered =>
        /\ orderbook.bids \ SyntheticPrices(synthetic_entries.bids)
              = KeptLevels(raw_orderbook.bids, OwnBids)
        /\ orderbook.asks \ SyntheticPrices(synthetic_entries.asks)
              = KeptLevels(raw_orderbook.asks, OwnAsks)
        /\ (filter_reference_price = 100000 /\ max_orderbook_deviation = 10)
              => \A q \in (orderbook.bids \ SyntheticPrices(synthetic_entries.bids))
                          \cup (orderbook.asks \ SyntheticPrices(synthetic_entries.asks)) :
                     90000 <= q /\ q <= 110000

\* Reference 100, d = 0.1, our bid at 99 inside the band: the levels at 90
\* and 110 are kept, those at 89 and 111 and our own are not.
C11_Witness ==
    /\ Filtered
    /\ filter_reference_price = 100000
    /\ my_orders # EmptyMap
    /\ raw_orderbook.bids = <<100000, 99000, 90000, 89000>>
    /\ orderbook.bids = {100000, 90000}
    /\ orderbook.asks = {101000, 110000}

\* --------------------------------------------------------------- C14
\* The directional reference D of the claim: the best raw bid when the
\* inventory ratio is above target + tolerance, the best raw ask when it is
\* below target - tolerance (0: none).
DirectionalD ==
    IF last_inventory_ratio > target_inventory_ratio + inventory_tolerance
       /\ raw_orderbook.bids # <<>>
    THEN MaxOf({raw_orderbook.bids[i] : i \in 1 .. Len(raw_orderbook.bids)})
    ELSE IF last_inventory_ratio < target_inventory_ratio - inventory_tolerance
            /\ raw_orderbook.asks # <<>>
    THEN MinOf({raw_orderbook.asks[i] : i \in 1 .. Len(raw_orderbook.asks)})
    ELSE 0

\* C14: after filtering, with the fallback enabled, the inventory ratio
\* outside target +/- tolerance and a directional reference D, the working
\* book holds a synthetic bid of size 1 at D * 0.999 exactly when the
\* filtered bid side is empty and a synthetic ask of size 1 at D * 1.001
\* exactly when the filtered ask side is empty; a non-empty side receives
\* none, and there is no synthetic entry at all when the inventory is within
\* tolerance, when the fallback is disabled or when the filter did not run.
C14_DirectionalSyntheticQuote ==
    LET kept_bids == KeptLevels(raw_orderbook.bids, OwnBids)
        kept_asks == KeptLevels(raw_orderbook.asks, OwnAsks)
        inject == out_of_range_pricing_fallback /\ DirectionalD # 0
    IN  /\ Filtered =>
            /\ synthetic_entries.bids =
                  IF inject /\ kept_bids = {}
                  THEN {[price |-> (DirectionalD * 999) \div 1000, size |-> 1]}
                  ELSE {}
            /\ synthetic_entries.asks =
                  IF inject /\ kept_asks = {}
                  THEN {[price |-> (DirectionalD * 1001) \div 1000, size |-> 1]}
                  ELSE {}
            /\ orderbook.bids = kept_bids \cup SyntheticPrices(synthetic_entries.bids)
            /\ orderbook.asks = kept_asks \cup SyntheticPrices(synthetic_entries.asks)
        /\ (price_pc = "fetched" /\ ~Filtered) => synthetic_entries = NoSynthetic

\* Too much base, the bid side emptied by the filter (its only level is our
\* own bid at 99), the ask side not: a synthetic bid at 99 * 0.999 and no
\* synthetic ask.
C14_Witness ==
    /\ Filtered
    /\ last_inventory_ratio = 70
    /\ raw_orderbook.bids = <<99000>>
    /\ synthetic_entries.bids = {[price |-> 98901, size |-> 1]}
    /\ synthetic_entries.asks = {}
    /\ orderbook.bids = {98901}
    /\ orderbook.asks # {}

\* --------------------------------------------------------------- C16
\* The configured filter source yields no usable value.
SourceUnusable ==
    CASE outlier_filter_reference = "vwap" -> last_vwap = 0
      [] outlier_filter_reference = "ticker_mid" -> ~(ticker_bid > 0 /\ ticker_ask > 0)
      [] outlier_filter_reference = "last" -> ~(last_price > 0)
      [] OTHER -> last_vwap = 0 /\ ~(ticker_bid > 0 /\ ticker_ask > 0)

\* The first available of stored VWAP, ticker mid (ask / bid < 10 only) and
\* last observed price (0: none).
FallThrough ==
    IF last_vwap > 0 THEN last_vwap
    ELSE IF ticker_bid > 0 /\ ticker_ask > 0 /\ ticker_ask < 10 * ticker_bid
         THEN (ticker_bid + ticker_ask) \div 2
    ELSE IF last_price > 0 THEN last_price
    ELSE 0

\* C16 (as claimed): when the configured filter source yields no usable
\* value, the reference is the first available of stored VWAP, ratio-guarded
\* ticker mid and last observed price; in particular the last observed price
\* when there is no VWAP and the ticker is rejected by the ratio guard.  (The
\* nearest_bid / nearest_ask sources move the reference afterwards, so the
\* reference is read where the filter leaves it alone.)
C16_FilterReferenceFallThrough ==
    (/\ price_pc = "fetched"
     /\ SourceUnusable
     /\ (outlier_filter_reference \in {"vwap", "ticker_mid", "last"}
            \/ max_orderbook_deviation = 0))
        => filter_reference_price = FallThrough

\* --------------------------------------------------------------- C12
\* The mid-prices a tick can resolve (100.0, 100.4, 100.5, 100.6, 160, 210).
Mids == {1000, 1004, 1005, 1006, 1600, 2100}

\* The cooldown of the last grid update has elapsed.
CooldownElapsed == now - last_grid_update_time >= 3 * polling_interval

\* C12: should_update_grid returns true whenever no anchor exists yet; with
\* an anchor and the cooldown elapsed it returns true exactly when
\* |mid - anchor| / anchor >= grid_spread / 2 (anchor 100, grid_spread 0.01:
\* 100.4 gives false, 100.6 gives true, a move of exactly 0.5% gives true).
C12_GridGateResult ==
    \A m \in Mids :
        /\ grid_anchor_price = 0 => should_update_grid(m)
        /\ (grid_anchor_price # 0 /\ CooldownElapsed) =>
              /\ should_update_grid(m)
                    <=> ((IF m >= grid_anchor_price THEN m - grid_anchor_price
                          ELSE grid_anchor_price - m) * 20000
                            >= grid_spread * grid_anchor_price)
              /\ grid_anchor_price = 1000 =>
                    /\ ~should_update_grid(1004)
                    /\ should_update_grid(1005)
                    /\ should_update_grid(1006)

\* With the anchor at 100 and the cooldown elapsed, a tick resolved 100.4
\* and the gate declined.
C12_Witness ==
    /\ grid_anchor_price = 1000
    /\ CooldownElapsed
    /\ tick_time = now
    /\ bid_price = 1003 /\ ask_price = 1005
    /\ gate_decision = "declined"

\* --------------------------------------------------------------- C13
\* A step approves a grid update only when none was approved before or when
\* 3 * polling_interval have passed since the last one.
ApprovedOnlyAfterCooldown ==
    grid_updates' # grid_updates
        => /\ grid_updates' = grid_updates + 1
           /\ last_grid_update_time' = now
           /\ (grid_updates = 0
                 \/ now - last_grid_update_time >= 3 * polling_interval)

\* During the cooldown the gate declines every mid-price, however far from
\* the anchor.
SuppressedDuringCooldown ==
    (grid_updates > 0 /\ now - last_grid_update_time < 3 * polling_interval)
        => \A m \in Mids : ~should_update_grid(m)

\* C13: after a grid update approved at t, no grid update is approved in a
\* tick before t + 3 * polling_interval, however far the mid-price has
\* moved; the factor 3 is fixed.
C13_GridCooldown ==
    /\ []SuppressedDuringCooldown
    /\ [][ApprovedOnlyAfterCooldown]_vars
    /\ [](cooldown_factor = 3)

\* One second before the end of the cooldown a tick resolved 210 against an
\* anchor of 100 and the gate declined.
C13_Witness ==
    /\ grid_updates = 1
    /\ grid_anchor_price = 1000
    /\ now - last_grid_update_time = 3 * polling_interval - 1
    /\ tick_time = now
    /\ bid_price = 2099 /\ ask_price = 2101
    /\ gate_decision = "declined"

\* --------------------------------------------------------------- C15
\* The latest tick approved a grid update for the mid-price now anchored.
GridBuilt == gate_decision = "approved" /\ tick_time = now /\ last_price > 0

\* C15 (as claimed): when the resolved mid-price is more than 50% above the
\* last accepted price (mid = 1.6 * last), the grid is computed around the
\* last accepted price.
C15_SanityCheckAboveHalf ==
    (GridBuilt /\ (grid_anchor_price - last_price) * 2 > last_price)
        => grid_mid_price = last_price

\* C15 (amended): when the resolved mid-price is more than twice the last
\* price, the grid is computed around the last price; otherwise, also when
\* the mid-price is more than 50% above it, around the resolved mid-price.
C15_SanityCheckAboveDouble ==
    GridBuilt =>
        grid_mid_price = IF grid_anchor_price > 2 * last_price THEN last_price
                         ELSE grid_anchor_price

\* A mid of 210 against a last price of 100: the grid is built around 100.
C15_Witness ==
    /\ GridBuilt
    /\ grid_anchor_price = 2100
    /\ last_price = 1000
    /\ grid_mid_price = 1000

\* ------------------------------------------------------------ C17
\* C17: after every successful poll the tracked ids are exactly the ids of
\* the response; every id tracked before the poll and absent from the
\* response is in the disappeared set with disappeared_at = the time of the
\* poll; every id of the response not known before is tracked with
\* created_at = the time of the poll.
C17_ReconciliationResult ==
    \A R \in Responses :
        LET res == PollResult(my_orders, recently_closed_orders, R, now)
        IN  /\ DOMAIN res.my_orders = DOMAIN R
            /\ \A id \in (DOMAIN my_orders) \ (DOMAIN R) :
                 /\ id \in DOMAIN res.recently_closed_orders
                 /\ res.recently_closed_orders[id].disappeared_at = now
            /\ \A id \in (DOMAIN R) \ ((DOMAIN my_orders)
                                        \cup (DOMAIN recently_closed_orders)) :
                 res.my_orders[id].created_at = now

\* An order tracked since an earlier time has just been moved to the
\* disappeared set by a poll.
C17_Witness ==
    \E id \in DOMAIN recently_closed_orders :
        /\ recently_closed_orders[id].disappeared_at = now
        /\ recently_closed_orders[id].created_at < now
        /\ id \notin DOMAIN my_orders

\* ------------------------------------------------------------ C18
\* The poll results in which a disappeared order is listed again.
ReappearanceInPoll ==
    \A R \in Responses :
        \A id \in (DOMAIN R) \cap (DOMAIN recently_closed_orders) :
            LET res == PollResult(my_orders, recently_closed_orders, R, now)
            IN  /\ id \in DOMAIN res.my_orders
                /\ id \notin DOMAIN res.recently_closed_orders
                /\ id \notin DOMAIN res.finalized
                /\ \A fo \in FetchOutcomes(DOMAIN res.finalized) :
                     LET store == FinalizeStore(res.finalized, fo)
                     IN  /\ store.closed_updates[id] = closed_updates[id]
                         /\ store.trades[id] = trades[id]
                         /\ store.db_status[id] = db_status[id]
                \* a later poll (at t2) that no longer lists it
                /\ \A t2 \in now .. MaxTime :
                     LET R2   == Restrict(R, (DOMAIN R) \ {id})
                         res2 == PollResult(res.my_orders,
                                            res.recently_closed_orders, R2, t2)
                     IN  /\ id \in DOMAIN res2.recently_closed_orders
                         /\ res2.recently_closed_orders[id].disappeared_at = t2
                         /\ id \notin DOMAIN res2.finalized

\* A step that takes a disappeared order back into the tracked set.
ReappearanceStep ==
    \A id \in Ids :
        (id \in DOMAIN recently_closed_orders /\ id \in DOMAIN my_orders')
            => /\ id \notin DOMAIN recently_closed_orders'
               /\ closed_updates'[id] = closed_updates[id]
               /\ trades'[id] = trades[id]

\* C18: when a poll response lists an id of the disappeared set, after the
\* poll the id is tracked and no longer disappeared, and the poll makes no
\* CLOSED update and no TradeRecord for it, even if its settlement timeout
\* had elapsed; a later disappearance starts a new settlement clock.
C18_Reappearance == []ReappearanceInPoll /\ [][ReappearanceStep]_vars

\* A disappeared order whose settlement timeout has elapsed while no poll
\* succeeded, and which the venue may list again.
C18_Witness ==
    \E id \in DOMAIN recently_closed_orders :
        /\ running
        /\ now - recently_closed_orders[id].disappeared_at >= settlement_timeout
        /\ id \in Issued

FallbackInPoll ==
    \A R \in Responses :
        LET res == PollResult(my_orders, recently_closed_orders, R, now)
        IN  \A fo \in FetchOutcomes(DOMAIN res.finalized) :
              \A id \in {i \in DOMAIN res.finalized : fo[i] = FetchFailed} :
                LET store == FinalizeStore(res.finalized, fo)
                    last_known == res.finalized[id].filled
                IN  /\ store.closed_updates[id] = closed_updates[id] + 1
                    /\ Len(store.trades[id]) =
                         Len(trades[id]) + (IF last_known > 0 THEN 1 ELSE 0)
                    /\ last_known > 0 =>
                         store.trades[id][Len(store.trades[id])].quantity
                           = last_known
                    /\ id \notin DOMAIN res.recently_closed_orders

C21_PollFailureKeepsState ==
    LET res == FailedPoll(my_orders, recently_closed_orders, now)
    IN  /\ res.my_orders = my_orders
        /\ res.recently_closed_orders = recently_closed_orders
        /\ DOMAIN res.finalized = {}
        /\ \A fo \in FetchOutcomes(DOMAIN res.finalized) :
             LET store == FinalizeStore(res.finalized, fo)
             IN  /\ store.db_status = db_status
                 /\ store.closed_updates = closed_updates
                 /\ store.trades = trades

\* A poll can fail while a filled order has been in the disappeared set for
\* its whole settlement timeout: a successful poll would finalize it.
C21_Witness ==
    \E id \in DOMAIN recently_closed_orders :
        /\ running
        /\ recently_closed_orders[id].filled > 0
        /\ IsSettled(now, recently_closed_orders[id])
        /\ closed_updates[id] = 0

C26_CancelAllDrains ==
    ~running => (DOMAIN my_orders = {} /\ DOMAIN recently_closed_orders = {})

\* ------------------------------------------------------------ C22
\* C22 (as claimed): a tick in which the order-book refresh or the
\* open-orders poll failed at the venue computes no grid and issues no
\* create_order and no cancel_order call.
C22_FailedTickSkipped ==
    (book_failed \/ poll_failed)
        => (~grid_computed /\ creates = 0 /\ cancels = 0)

\* ------------------------------------------------------------ C23
\* A tick whose gate found no price goes no further than its sleep.
NoPriceTickIsQuiet ==
    gate_decision = "no_price"
        => /\ ~grid_computed
           /\ creates = 0
           /\ cancels = 0
           /\ loop_pc \notin {"grid", "cancel_outside", "place", "error"}
           /\ loop_pc # "sleep" => consecutive_errors = 0

\* The gate step of a tick without a price.
NoPriceGateStep ==
    (loop_pc = "gate" /\ loop_pc' # "gate" /\ MidPrice = None)
        => /\ loop_pc' = "sleep"
           /\ gate_decision' = "no_price"
           /\ UNCHANGED <<grid_anchor_price, last_grid_update_time,
                          grid_needs_update, consecutive_errors>>

\* The anchor stays for the rest of such a tick.
NoPriceKeepsAnchor ==
    gate_decision' = "no_price" => grid_anchor_price' = grid_anchor_price

\* C23: in a tick where calculate_mid_price returns None the loop raises
\* nothing, computes no grid, issues no create_order and no cancel_order,
\* leaves the anchor as it was, and the tick ends with consecutive_errors
\* = 0.
C23_UnavailablePrice ==
    /\ []NoPriceTickIsQuiet
    /\ [][NoPriceGateStep]_vars
    /\ [][NoPriceKeepsAnchor]_vars

\* A tick without a price has completed and the loop goes on.
C23_Witness ==
    /\ gate_decision = "no_price"
    /\ loop_pc = "loop_head"
    /\ running
    /\ consecutive_errors = 0
    /\ grid_anchor_price = None

\* ------------------------------------------------------------ C24
\* C24 (as claimed): if every tick that completes had a venue call of a
\* sub-step fail, the loop eventually stops (running becomes false).
C24_EscalationToStop ==
    [](loop_pc = "sleep" => (book_failed \/ poll_failed)) => <>(~running)

\* ------------------------------------------------------------ C28
\* The exchange is closed (or the close failed and was logged) whatever
\* became of the cancel-all.
CloseFollowsCancelAll ==
    /\ loop_pc = "exited"
         => (cancel_all_outcome # "none" /\ exchange_closed # "none")
    /\ loop_pc \in {"cancel_all", "close", "exited"} => ~running

SignalOnlyStops ==
    (signalled' /\ ~signalled)
        => /\ running' = FALSE
           /\ UNCHANGED <<loop_pc, consecutive_errors, error_delay, tick_vars,
                          shutdown_vars, clock_vars, gate_vars, tracker_vars>>

\* No tick starts once a signal has arrived.
NoTickAfterSignal ==
    signalled => ~(loop_pc = "loop_head" /\ loop_pc' = "book")

\* _shutdown is entered from the head of the loop (or when init failed, or
\* at the fifth error), never from inside a tick.
ShutdownFromTickBoundary ==
    (loop_pc' = "shutdown" /\ loop_pc # "shutdown")
        => loop_pc \in {"run", "loop_head", "error"}

\* C29: a signal only sets running to false; the tick in progress runs to
\* completion; no tick starts after the signal; then the shutdown
\* cancel-all runs.
C29_Signals ==
    /\ [][SignalOnlyStops]_vars
    /\ [][NoTickAfterSignal]_vars
    /\ [][ShutdownFromTickBoundary]_vars
    /\ signalled ~> (loop_pc \in {"cancel_all", "close", "exited"})

\* The signal arrived while the grid orders were being placed, and the tick
\* goes on.
C29_Witness ==
    /\ signalled
    /\ ~running
    /\ loop_pc = "place"
    /\ to_place = 1
    /\ creates = 1

\* ------------------------------------------------------------ C27
\* The verification polls the open orders at most three times and
\* re-issues cancels in at most two of its passes.
BoundedVerification ==
    /\ repolls <= 3
    /\ recancels <= 2
    /\ recancels <= repolls
    /\ ca_pc = "done" => ca_result \in {"no_orders", "cleared", "error_cleared"}

\* C27: cancel_all_orders always terminates, whatever the venue answers;
\* after the first cancellation round it polls the open orders at most 3
\* times and re-issues cancels in at most 2 of those passes; with orders
\* left after the last pass it returns without raising.
C27_CancelAllTerminates ==
    /\ []BoundedVerification
    /\ <>(ca_pc = "done")

\* cancel_all_orders returned with orders still open after its third poll.
C27_Witness ==
    /\ ca_pc = "done"
    /\ ca_result = "cleared"
    /\ repolls = 3
    /\ recancels = 2
    /\ remaining_orders # <<>>

\* ------------------------------------------------------------ C30
\* C30 (as claimed): the cancel calls of one batch, which run concurrently,
\* are for pairwise distinct order ids, whatever the venue listed.
C30_BatchIdsDistinct ==
    \A i, j \in 1 .. Len(in_flight) :
        i # j => in_flight[i] # in_flight[j]

\* ------------------------------------------------------------ C32
\* C32 (as claimed): a store write that fails never changes control flow.
\* In the loop the only exception that escapes a tick is a record_order
\* failure, so the claim has the except clause never entered: no tick is
\* cut short with grid orders left, none is counted as failed.
C32_StoreWritesFireAndForget ==
    /\ loop_pc # "error"
    /\ consecutive_errors = 0

\* ------------------------------------------------------------ C33
\* A tick whose gate declined calls neither the grid computation nor
\* create_order nor cancel_order.
DeclinedTickIsQuiet ==
    gate_decision = "declined" =>
        (~grid_computed /\ creates = 0 /\ cancels = 0 /\ loop_pc # "grid")

\* The anchor changes only in the gate step of a tick that approved; so
\* does the last-update time (the sleeps aside, which only move the
\* clock's origin).
AnchorMovesOnlyOnApproval ==
    /\ grid_anchor_price' # grid_anchor_price =>
          (loop_pc = "gate" /\ gate_decision' = "approved")
    /\ (last_grid_update_time' # last_grid_update_time /\ loop_pc' # "loop_head") =>
          (loop_pc = "gate" /\ gate_decision' = "approved")
    /\ (loop_pc = "gate" /\ loop_pc' # "gate" /\ gate_decision' # "approved") =>
          /\ grid_anchor_price' = grid_anchor_price
          /\ last_grid_update_time' = last_grid_update_time
          /\ grid_needs_update' = grid_needs_update
          /\ loop_pc' = "sleep"

\* C33: the anchor and the last-update time are mutated only in a tick
\* whose gate approved; a tick whose gate returned false leaves them
\* unchanged and issues no create_order and no cancel_order call.
C33_GateDeclinedTick ==
    /\ []DeclinedTickIsQuiet
    /\ [][AnchorMovesOnlyOnApproval]_vars

\* A tick with a price ended after the gate declined.
C33_Witness ==
    /\ gate_decision = "declined"
    /\ loop_pc = "sleep"
    /\ grid_anchor_price # None
    /\ last_grid_update_time # NoTime

\* ------------------------------------------------------------ C35
\* The delays of the claim: 5, 10, 20, 40 for n = 1..4.
ClaimedErrorDelay(n) ==
    CASE n = 1 -> 5 [] n = 2 -> 10 [] n = 3 -> 20 [] n = 4 -> 40 [] OTHER -> 60

\* The except clause of the loop, as claimed.
ErrorStep ==
    (loop_pc = "error" /\ loop_pc' # "error") =>
        /\ consecutive_errors' = consecutive_errors + 1
        /\ IF consecutive_errors' < 5
           THEN /\ error_delay' = ClaimedErrorDelay(consecutive_errors')
                /\ error_delay' <= 60
                /\ running' = running
                /\ loop_pc' = "loop_head"
           ELSE /\ running' = FALSE
                /\ loop_pc' = "shutdown"
                /\ now' = now
                /\ error_delay' = error_delay

\* A tick that completes resets the count; nothing else changes it.
CountStep ==
    /\ (loop_pc = "sleep" /\ loop_pc' # "sleep") => consecutive_errors' = 0
    /\ (loop_pc \notin {"sleep", "error"} \/ loop_pc' = loop_pc) =>
          consecutive_errors' = consecutive_errors

\* The loop stops on errors only with five failing ticks in a row.
StoppedByErrors ==
    /\ consecutive_errors <= 5
    /\ (consecutive_errors = 5) => ~running
    /\ (loop_pc = "shutdown" /\ ~running /\ ~signalled) => consecutive_errors = 5

\* C35: an exception escaping a tick raises the count n; for n < 5 the loop
\* sleeps min(5 * 2^(n-1), 60) seconds and runs the next tick; at n = 5 it
\* sets running to false and exits without sleeping; a tick that completes
\* resets n to 0.
C35_ConsecutiveErrors ==
    /\ [][ErrorStep]_vars
    /\ [][CountStep]_vars
    /\ []StoppedByErrors

\* The loop stopped after its fifth failing tick in a row, the fourth
\* having waited 40 seconds.
C35_Witness ==
    /\ consecutive_errors = 5
    /\ error_delay = 40
    /\ ~running
    /\ ~signalled

\* ------------------------------------------------------------ C38
\* C38 (as claimed): in a tick whose grid computation returned no order,
\* the last-update time was not advanced (nor the forced-update flag
\* cleared), so that the next tick's gate approves again.
C38_AnchorOnlyWithGrid ==
    (loop_pc = "cancel_outside" /\ grid_computed /\ to_place = 0) =>
        last_grid_update_time # tick_time

\* ------------------------------------------------------------ C39
\* Order id leaves in-memory tracking in this step, holding a fill: it was
\* tracked, or it was disappeared and its stored quantity is the final one
\* (the final fetch_order failed).
LeavesWithFill(id) ==
    /\ id \notin (DOMAIN my_orders') \cup (DOMAIN recently_closed_orders')
    /\ \/ id \in DOMAIN my_orders /\ my_orders[id].filled > 0
       \/ /\ id \in DOMAIN recently_closed_orders
          /\ recently_closed_orders[id].filled > 0
          /\ id \in refetch_failed'

FillRecordedOnLeaving ==
    \A id \in Ids : LeavesWithFill(id) => Len(trades'[id]) = 1

\* C39 (as claimed): an order that leaves in-memory tracking with a positive
\* filled quantity, by finalization, by cancel_order or by cancel-all, has
\* exactly one TradeRecord.
C39_NoFillLost == [][FillRecordedOnLeaving]_vars

\* ------------------------------------------------------------ C40
\* Order id was cancelled by cancel_order: out of tracking, CANCELLED in
\* the store.
Cancelled(id) ==
    /\ db_status[id] = "CANCELLED"
    /\ id \notin (DOMAIN my_orders) \cup (DOMAIN recently_closed_orders)

CancelledStays ==
    \A id \in Ids :
        Cancelled(id) =>
            /\ id \notin (DOMAIN my_orders') \cup (DOMAIN recently_closed_orders')
            /\ db_status'[id] = "CANCELLED"
            /\ trades'[id] = trades[id]

\* C40 (as claimed): once cancel_order succeeded for an id, the id is never
\* tracked again, never disappeared, never marked CLOSED and gets no
\* TradeRecord, whatever later polls report.
C40_CancelledIsTerminal == [][CancelledStays]_vars

\* ------------------------------------------------------------ C34
\* C34 (as claimed): every venue call is made through retry_with_backoff,
\* the cancels re-issued during the cancel-all verification included: no
\* cancel is issued on the connector directly.
C34_EveryVenueCallRetried == direct_calls = {}

TrackedOnlyInVerification ==
    /\ DOMAIN my_orders' # DOMAIN my_orders =>
          /\ pl_pc = "verify"
          /\ pl_pc' = "record"
          /\ DOMAIN my_orders' = (DOMAIN my_orders) \cup {pl_oid}
    /\ db_status' # db_status =>
          /\ pl_pc = "record"
          /\ pl_oid \in DOMAIN my_orders
          /\ verify_seen \in {"listed", "fetched"}

WithinTenthPercent(a, b) ==
    (IF a >= b THEN a - b ELSE b - a) * 1000 < b

\* C36 (as claimed): two orders the bot placed on the same side, both
\* tracked, are never within 0.1% of each other at placement: the later
\* was not placed within 0.1% of the earlier.
C36_DuplicateSuppression ==
    \A a \in DOMAIN my_orders : \A b \in DOMAIN my_orders :
        (a < b /\ my_orders[a].side = my_orders[b].side) =>
            ~WithinTenthPercent(placed_price[a], placed_price[b])

\* ------------------------------------------------------------ C37
\* price * s * 1.002 <= free for a buy, s <= free for a sell.
Affordable(side, price, s, free) ==
    IF side = "buy" THEN price * s[1] * 1002 <= free * 1000 * s[2]
    ELSE s[1] <= free * s[2]

\* C37 (as claimed): whenever validate_order_funds returns (True, s), s is
\* affordable from the free balance it read.
C37_FundsValidationSound ==
    pl_pc = "create" => Affordable(pl_side, pl_price, pl_size, pl_available)

====
